---- MODULE Spec2Model ----
(***************************************************************************)
(* Exposure-time correction of slit-spectrograph cubes and sequences       *)
(* (sunraster/raster.py, sunraster/spectrogram_sequence.py).               *)
(*                                                                         *)
(* Numbers are binary floating-point values with a MantBits-bit            *)
(* significand, rounded to nearest, ties to even, with an unbounded        *)
(* exponent (no overflow, no underflow): numpy's float64 with a shorter    *)
(* significand.  A value is <<m, e>>, standing for m * 2^e, with m odd     *)
(* (or <<0, 0>> for zero), so that equal numbers are equal tuples.         *)
(***************************************************************************)
EXTENDS Integers, Sequences, FiniteSets, TLC

VARIABLES inp, res, seq, call

vars == <<inp, res, seq, call>>

(***************************************************************************)
(* Bounds of the model.                                                    *)
(***************************************************************************)
MantBits == 4
MaxLen == 2
MaxArrays == 1
MaxSecPower == 2
MaxCubes == 2
MaxAxes == 2

(***************************************************************************)
(* Floating-point arithmetic.                                              *)
(***************************************************************************)
Abs(x) == IF x < 0 THEN -x ELSE x
Max(a, b) == IF a >= b THEN a ELSE b
Min(a, b) == IF a <= b THEN a ELSE b
Sign(x) == IF x < 0 THEN -1 ELSE 1

RECURSIVE Norm(_, _)
Norm(m, e) ==
    IF m = 0 THEN <<0, 0>>
    ELSE IF Abs(m) % 2 = 0 THEN Norm(Sign(m) * (Abs(m) \div 2), e + 1)
    ELSE <<m, e>>

\* n + r/B, 0 <= r < B, rounded to an integer: to nearest, ties to even.
RoundHalfEven(n, r, B) ==
    IF 2 * r > B \/ (2 * r = B /\ n % 2 = 1) THEN n + 1 ELSE n

\* The value sgn * (A / B) * 2^e, A >= 0, B > 0, rounded to MantBits
\* significant bits, to nearest, ties to even: A/B is first scaled by a
\* power of two into [2^(MantBits-1), 2^MantBits).
RECURSIVE RoundRat(_, _, _, _)
RoundRat(sgn, A, B, e) ==
    IF A = 0 THEN <<0, 0>>
    ELSE IF A < 2^(MantBits - 1) * B THEN RoundRat(sgn, 2 * A, B, e - 1)
    ELSE IF A >= 2^MantBits * B THEN RoundRat(sgn, A, 2 * B, e + 1)
    ELSE Norm(sgn * RoundHalfEven(A \div B, A % B, B), e)

\* x / y of two floats, y # 0 (numpy true division, correctly rounded).
FDiv(x, y) == RoundRat(Sign(x[1]) * Sign(y[1]), Abs(x[1]), Abs(y[1]), x[2] - y[2])

\* x * y of two floats, correctly rounded.
FMul(x, y) == RoundRat(Sign(x[1]) * Sign(y[1]), Abs(x[1] * y[1]), 1, x[2] + y[2])

(***************************************************************************)
(* numpy arrays: a shape and the elements in row-major order.  A scalar    *)
(* has the empty shape.  Binary operations broadcast: shapes are aligned   *)
(* at their last axis, and an axis of length 1 is stretched.               *)
(***************************************************************************)
RECURSIVE Prod(_)
Prod(shape) == IF shape = <<>> THEN 1 ELSE Head(shape) * Prod(Tail(shape))

PadLeft(shape, n) ==
    [i \in 1..n |-> IF i <= n - Len(shape) THEN 1 ELSE shape[i - (n - Len(shape))]]

Broadcastable(s1, s2) ==
    LET n == Max(Len(s1), Len(s2))
        p1 == PadLeft(s1, n)
        p2 == PadLeft(s2, n)
    IN  \A i \in 1..n : p1[i] = p2[i] \/ p1[i] = 1 \/ p2[i] = 1

BroadcastShape(s1, s2) ==
    LET n == Max(Len(s1), Len(s2))
        p1 == PadLeft(s1, n)
        p2 == PadLeft(s2, n)
    IN  [i \in 1..n |-> IF p1[i] = 1 THEN p2[i] ELSE p1[i]]

\* The stride of axis i of an array of the given shape.
Stride(shape, i) == Prod(SubSeq(shape, i + 1, Len(shape)))

\* The 0-based flat position, in an array of (padded) shape pa, of the
\* element that takes part at 0-based flat position k of a result of
\* shape rs: a stretched axis always reads index 0.
RECURSIVE FlatIndex(_, _, _, _)
FlatIndex(pa, rs, k, i) ==
    IF i > Len(rs) THEN 0
    ELSE (IF pa[i] = 1 THEN 0 ELSE ((k \div Stride(rs, i)) % rs[i]) * Stride(pa, i))
         + FlatIndex(pa, rs, k, i + 1)

ElemAt(a, k, rs) == a.vals[FlatIndex(PadLeft(a.shape, Len(rs)), rs, k, 1) + 1]

\* The binary ufuncs in use: true_divide and multiply.
Ufunc(op, x, y) == IF op = "true_divide" THEN FDiv(x, y) ELSE FMul(x, y)

Elementwise(op, a, b) ==
    LET rs == BroadcastShape(a.shape, b.shape)
    IN  [shape |-> rs,
         vals |-> [k \in 1..Prod(rs) |->
                     Ufunc(op, ElemAt(a, k - 1, rs), ElemAt(b, k - 1, rs))]]

ArrayDiv(a, b) == Elementwise("true_divide", a, b)
ArrayMul(a, b) == Elementwise("multiply", a, b)

(***************************************************************************)
(* astropy units: a named unit times a power of the second.  decompose()   *)
(* drops a base whose power is zero, so the second is among the bases      *)
(* exactly when its power is not zero.                                     *)
(***************************************************************************)
APPLY_EXPOSURE_TIME_ERROR == "Exposure time correction has probably already been applied since the unit already includes inverse time. To apply exposure time correction anyway, set 'force' kwarg to True."
UNDO_EXPOSURE_TIME_ERROR == "Exposure time correction has probably already been undone since the unit does not include inverse time. To undo exposure time correction anyway, set 'force' kwarg to True."
BROADCAST_ERROR == "operands could not be broadcast together"

UnitDivS(unit) == [unit EXCEPT !.s = @ - 1]
UnitMulS(unit) == [unit EXCEPT !.s = @ + 1]
DecomposeBases(unit) == {unit.base} \cup (IF unit.s # 0 THEN {"s"} ELSE {})

Raise(exc, msg) == [exc |-> exc, msg |-> msg]
Return(arrays, unit) == [exc |-> "none", arrays |-> arrays, unit |-> unit]
Raised(out) == out.exc # "none"

AllBroadcastable(arrays, exposure_time) ==
    \A i \in 1..Len(arrays) : Broadcastable(arrays[i].shape, exposure_time.shape)

\* Mutants of the correction functions: the guard dropped; the arithmetic
\* of the other direction; the guard of the other direction; the unit
\* left as it was.
calculate_without_guard(old_data_arrays, old_unit, exposure_time, force) ==
    IF ~AllBroadcastable(old_data_arrays, exposure_time)
    THEN Raise("ValueError", BROADCAST_ERROR)
    ELSE Return([i \in 1..Len(old_data_arrays) |->
                    ArrayDiv(old_data_arrays[i], exposure_time)],
                UnitDivS(old_unit))

calculate_multiplying(old_data_arrays, old_unit, exposure_time, force) ==
    IF force # TRUE /\ "s" \in DecomposeBases(old_unit)
    THEN Raise("ValueError", APPLY_EXPOSURE_TIME_ERROR)
    ELSE IF ~AllBroadcastable(old_data_arrays, exposure_time)
    THEN Raise("ValueError", BROADCAST_ERROR)
    ELSE Return([i \in 1..Len(old_data_arrays) |->
                    ArrayMul(old_data_arrays[i], exposure_time)],
                UnitDivS(old_unit))

uncalculate_guarding_old_unit(old_data_arrays, old_unit, exposure_time, force) ==
    IF force # TRUE /\ "s" \in DecomposeBases(old_unit)
    THEN Raise("ValueError", UNDO_EXPOSURE_TIME_ERROR)
    ELSE IF ~AllBroadcastable(old_data_arrays, exposure_time)
    THEN Raise("ValueError", BROADCAST_ERROR)
    ELSE Return([i \in 1..Len(old_data_arrays) |->
                    ArrayMul(old_data_arrays[i], exposure_time)],
                UnitMulS(old_unit))

uncalculate_keeping_unit(old_data_arrays, old_unit, exposure_time, force) ==
    IF force # TRUE /\ "s" \in DecomposeBases(UnitMulS(old_unit))
    THEN Raise("ValueError", UNDO_EXPOSURE_TIME_ERROR)
    ELSE IF ~AllBroadcastable(old_data_arrays, exposure_time)
    THEN Raise("ValueError", BROADCAST_ERROR)
    ELSE Return([i \in 1..Len(old_data_arrays) |->
                    ArrayMul(old_data_arrays[i], exposure_time)],
                old_unit)

uncalculate_dividing(old_data_arrays, old_unit, exposure_time, force) ==
    IF force # TRUE /\ "s" \in DecomposeBases(UnitMulS(old_unit))
    THEN Raise("ValueError", UNDO_EXPOSURE_TIME_ERROR)
    ELSE IF ~AllBroadcastable(old_data_arrays, exposure_time)
    THEN Raise("ValueError", BROADCAST_ERROR)
    ELSE Return([i \in 1..Len(old_data_arrays) |->
                    ArrayDiv(old_data_arrays[i], exposure_time)],
                UnitMulS(old_unit))

calculate_exposure_time_correction(old_data_arrays, old_unit, exposure_time, force) ==
    IF force # TRUE /\ "s" \in DecomposeBases(old_unit)
    THEN Raise("ValueError", APPLY_EXPOSURE_TIME_ERROR)
    ELSE IF ~AllBroadcastable(old_data_arrays, exposure_time)
    THEN Raise("ValueError", BROADCAST_ERROR)
    ELSE Return([i \in 1..Len(old_data_arrays) |->
                    ArrayDiv(old_data_arrays[i], exposure_time)],
                UnitDivS(old_unit))

uncalculate_exposure_time_correction(old_data_arrays, old_unit, exposure_time, force) ==
    IF force # TRUE /\ "s" \in DecomposeBases(UnitMulS(old_unit))
    THEN Raise("ValueError", UNDO_EXPOSURE_TIME_ERROR)
    ELSE IF ~AllBroadcastable(old_data_arrays, exposure_time)
    THEN Raise("ValueError", BROADCAST_ERROR)
    ELSE Return([i \in 1..Len(old_data_arrays) |->
                    ArrayMul(old_data_arrays[i], exposure_time)],
                UnitMulS(old_unit))

(***************************************************************************)
(* The inputs of the correction functions.                                 *)
(***************************************************************************)
DataVals == {<<13, 0>>, <<-3, -1>>}
ExposureVals == {<<1, 1>>, <<3, 0>>}
BaseUnits == {"photon", "DN_IRIS_NUV"}
Units == [base : BaseUnits, s : (0 - MaxSecPower)..MaxSecPower]

Scalar(v) == [shape |-> <<>>, vals |-> <<v>>]
ArraysOf(shape, Vals) == {[shape |-> shape, vals |-> v] : v \in [1..Prod(shape) -> Vals]}
ArraySets ==
    UNION {[1..k -> ArraysOf(<<n>>, DataVals)] : k \in 0..MaxArrays, n \in 1..MaxLen}
ExposureTimes ==
    {Scalar(t) : t \in ExposureVals}
        \cup UNION {ArraysOf(<<n>>, ExposureVals) : n \in 1..(MaxLen + 1)}

(***************************************************************************)
(* The correction functions applied to every input.                        *)
(***************************************************************************)
InitEngine ==
    /\ inp \in [arrays : ArraySets, unit : Units, exposure_time : ExposureTimes]
    /\ res = [fn |-> "none"]
    /\ seq = <<>>
    /\ call = [pc |-> "off"]

Calculate(force) ==
    /\ res.fn = "none"
    /\ res' = [fn |-> "calculate", force |-> force,
               out |-> calculate_exposure_time_correction(
                           inp.arrays, inp.unit, inp.exposure_time, force)]
    /\ UNCHANGED <<inp, seq, call>>

Uncalculate(force) ==
    /\ res.fn = "none"
    /\ res' = [fn |-> "uncalculate", force |-> force,
               out |-> uncalculate_exposure_time_correction(
                           inp.arrays, inp.unit, inp.exposure_time, force)]
    /\ UNCHANGED <<inp, seq, call>>

\* undo(apply(A, U, T, force), U/s, T, force)
RoundTrip(force) ==
    LET mid == calculate_exposure_time_correction(
                   inp.arrays, inp.unit, inp.exposure_time, force)
    IN  /\ res.fn = "none"
        /\ res' = [fn |-> "roundtrip", force |-> force, mid |-> mid,
                   out |-> IF Raised(mid) THEN mid
                           ELSE uncalculate_exposure_time_correction(
                                    mid.arrays, mid.unit, inp.exposure_time, force)]
        /\ UNCHANGED <<inp, seq, call>>

NextEngine ==
    \/ \E force \in BOOLEAN : Calculate(force)
    \/ \E force \in BOOLEAN : Uncalculate(force)
    \/ \E force \in BOOLEAN : RoundTrip(force)

SpecEngine == InitEngine /\ [][NextEngine]_vars

(***************************************************************************)
(* Raster: one cube.  None is the empty tuple; a binding is None or        *)
(* <<name, loc>>; the extra coordinates are None or a dict (a function     *)
(* on the keys) of [axis, value], axis None or <<a>>; an exposure time     *)
(* is a quantity in seconds.                                               *)
(***************************************************************************)
None == <<>>

AXIS_NOT_FOUND_ERROR == " axis not found. If in extra_coords, axis name must be supported: "

SUPPORTED_LONGITUDE_NAMES ==
    <<".lon", "longitude", "lon", ".LON", "LONGITUDE", "LON", ".lon",
      "Longitude", "Lon", ".lon", "Longitude", "Lon">>

SUPPORTED_LATITUDE_NAMES ==
    <<".lat", "latitude", "lat", ".LAT", "LATITUDE", "LAT", ".lat",
      "Latitude", "Lat", ".lat", "Latitude", "Lat">>

SUPPORTED_SPECTRAL_NAMES ==
    <<"em.wl", "em.energy", "em.freq", "wavelength", "energy", "frequency",
      "freq", "lambda", "EM.WL", "EM.ENERGY", "EM.FREQ", "WAVELENGTH",
      "ENERGY", "FREQUENCY", "FREQ", "LAMBDA", "Em.wl", "Em.energy",
      "Em.freq", "Wavelength", "Energy", "Frequency", "Freq", "Lambda",
      "Em.wl", "Em.energy", "Em.freq", "Wavelength", "Energy", "Frequency",
      "Freq", "Lambda">>

SUPPORTED_TIME_NAMES ==
    <<"time", "TIME", "Time", "Time">>

SUPPORTED_EXPOSURE_NAMES ==
    <<"exposure time", "exposure_time", "exposure times", "exposure_times",
      "exp time", "exp_time", "exp times", "exp_times", "EXPOSURE TIME",
      "EXPOSURE_TIME", "EXPOSURE TIMES", "EXPOSURE_TIMES", "EXP TIME",
      "EXP_TIME", "EXP TIMES", "EXP_TIMES", "Exposure time",
      "Exposure_time", "Exposure times", "Exposure_times", "Exp time",
      "Exp_time", "Exp times", "Exp_times", "Exposure time",
      "Exposure_time", "Exposure times", "Exposure_times", "Exp time",
      "Exp_time", "Exp times", "Exp_times">>

\* sub in s, for two strings.
Contains(sub, s) ==
    \E i \in 1..(Len(s) - Len(sub) + 1) : SubSeq(s, i, i + Len(sub) - 1) = sub

\* A mutant of the search that looks a synonym up among the extra
\* coordinates before the world types.
RECURSIVE find_axis_name_extra_first(_, _, _, _)
find_axis_name_extra_first(i, supported_names, world_axis_physical_types, extra_coords) ==
    IF i > Len(supported_names) THEN None
    ELSE LET wcs_name_index ==
                 {j \in 1..Len(world_axis_physical_types) :
                     Contains(supported_names[i], world_axis_physical_types[j])}
         IN  IF extra_coords # None /\ supported_names[i] \in DOMAIN extra_coords
             THEN <<supported_names[i], "extra_coords">>
             ELSE IF Cardinality(wcs_name_index) = 1
             THEN <<world_axis_physical_types[CHOOSE j \in wcs_name_index : TRUE], "wcs">>
             ELSE find_axis_name_extra_first(i + 1, supported_names,
                                             world_axis_physical_types, extra_coords)

RECURSIVE find_axis_name_from(_, _, _, _)
find_axis_name_from(i, supported_names, world_axis_physical_types, extra_coords) ==
    IF i > Len(supported_names) THEN None
    ELSE LET wcs_name_index ==
                 {j \in 1..Len(world_axis_physical_types) :
                     Contains(supported_names[i], world_axis_physical_types[j])}
         IN  IF Cardinality(wcs_name_index) = 1
             THEN <<world_axis_physical_types[CHOOSE j \in wcs_name_index : TRUE], "wcs">>
             ELSE IF extra_coords # None /\ supported_names[i] \in DOMAIN extra_coords
             THEN <<supported_names[i], "extra_coords">>
             ELSE find_axis_name_from(i + 1, supported_names,
                                      world_axis_physical_types, extra_coords)

find_axis_name(supported_names, world_axis_physical_types, extra_coords) ==
    find_axis_name_from(1, supported_names, world_axis_physical_types, extra_coords)

\* ndcube: the extra coordinates as the constructor takes them, a
\* collection of (name, axis, value), and as the cube holds them.
convert_extra_coords_dict_to_input_format(extra_coords, missing_axes) ==
    {<<key, extra_coords[key].axis, extra_coords[key].value>> : key \in DOMAIN extra_coords}

ExtraCoordsDict(input) ==
    IF input = {} THEN None
    ELSE [key \in {c[1] : c \in input} |->
             LET c == CHOOSE c \in input : c[1] = key
             IN  [axis |-> c[2], value |-> c[3]]]

\* astropy.nddata: an array given as uncertainty is kept as an uncertainty
\* of unknown type.
WrapUncertainty(uncertainty) ==
    IF uncertainty = None THEN None
    ELSE IF "type" \in DOMAIN uncertainty THEN uncertainty
    ELSE [type |-> "unknown", array |-> uncertainty]

Raster(id, data, wcs, extra_coords, unit, uncertainty, meta, mask, missing_axes) ==
    LET extra == ExtraCoordsDict(extra_coords)
    IN  [id |-> id, data |-> data, wcs |-> wcs, extra_coords |-> extra,
         unit |-> unit, uncertainty |-> WrapUncertainty(uncertainty),
         meta |-> meta, mask |-> mask, missing_axes |-> missing_axes,
         _longitude_name |-> find_axis_name(SUPPORTED_LONGITUDE_NAMES, wcs.types, extra),
         _latitude_name |-> find_axis_name(SUPPORTED_LATITUDE_NAMES, wcs.types, extra),
         _spectral_name |-> find_axis_name(SUPPORTED_SPECTRAL_NAMES, wcs.types, extra),
         _time_name |-> find_axis_name(SUPPORTED_TIME_NAMES, wcs.types, extra),
         _exposure_time_name |-> find_axis_name(SUPPORTED_EXPOSURE_NAMES, wcs.types, extra)]

get_axis_coord(self, axis_name, coord_loc) ==
    IF coord_loc = "wcs" THEN self.wcs.world[axis_name]
    ELSE self.extra_coords[axis_name].value

Raster_exposure_time(self) ==
    IF self._exposure_time_name = None
    THEN Raise("ValueError",
               <<"Exposure time", AXIS_NOT_FOUND_ERROR, SUPPORTED_EXPOSURE_NAMES>>)
    ELSE [exc |-> "none",
          value |-> get_axis_coord(self, self._exposure_time_name[1],
                                   self._exposure_time_name[2])]

\* A mutant that leaves the exposure times as they are.
NewAxes_none(a, n) == a

\* a[:, np.newaxis, ...]: n axes of length 1 after the first axis.
NewAxes(a, n) ==
    [shape |-> <<Head(a.shape)>> \o [i \in 1..n |-> 1] \o Tail(a.shape), vals |-> a.vals]

IsScalar(a) == a.shape = <<>>

\* The new Raster of identity new_id returned by
\* apply_exposure_time_correction, out being what the correction function
\* returned.  First a mutant that drops the mask.
CorrectedRaster_without_mask(self, out, new_id) ==
    Raster(new_id, out.arrays[1], self.wcs,
           convert_extra_coords_dict_to_input_format(self.extra_coords, self.missing_axes),
           out.unit, out.arrays[2], self.meta, None, self.missing_axes)

CorrectedRaster(self, out, new_id) ==
    Raster(new_id, out.arrays[1], self.wcs,
           convert_extra_coords_dict_to_input_format(self.extra_coords, self.missing_axes),
           out.unit, out.arrays[2], self.meta, self.mask, self.missing_axes)

\* The outcome of Raster.apply_exposure_time_correction: the cube it was
\* called on, and the exception raised or the new cube.
Raster_apply_exposure_time_correction(self, undo, force, new_id) ==
    LET exposure_time == Raster_exposure_time(self)
        rank == Len(self.data.shape)
        exposure_time_s ==
            IF IsScalar(exposure_time.value) \/ rank = 1 THEN exposure_time.value
            ELSE NewAxes(exposure_time.value, rank - 1)
        out == IF undo = TRUE
               THEN uncalculate_exposure_time_correction(
                        <<self.data, self.uncertainty.array>>, self.unit,
                        exposure_time_s, force)
               ELSE calculate_exposure_time_correction(
                        <<self.data, self.uncertainty.array>>, self.unit,
                        exposure_time_s, force)
    IN  IF Raised(exposure_time)
        THEN [self |-> self, exc |-> exposure_time.exc, msg |-> exposure_time.msg]
        ELSE IF ~IsScalar(exposure_time.value) /\ rank \notin {1, 2, 3}
        THEN [self |-> self, exc |-> "ValueError",
              msg |-> "Raster dimensions must be 2 or 3. Dimensions=1"]
        ELSE IF self.uncertainty = None
        THEN [self |-> self, exc |-> "AttributeError",
              msg |-> "'NoneType' object has no attribute 'array'"]
        ELSE IF Raised(out)
        THEN [self |-> self, exc |-> out.exc, msg |-> out.msg]
        ELSE [self |-> self, exc |-> "none", value |-> CorrectedRaster(self, out, new_id)]

(***************************************************************************)
(* The sequences: SpectrogramSequence and RasterSequence of                *)
(* spectrogram_sequence.py, and the RasterSequence of raster.py.  An       *)
(* optional integer is None or <<a>>.                                      *)
(***************************************************************************)
SPECTROGRAM_SEQUENCE == "sunraster.spectrogram_sequence.SpectrogramSequence"
RASTER_SEQUENCE == "sunraster.spectrogram_sequence.RasterSequence"
RASTER_RASTER_SEQUENCE == "sunraster.raster.RasterSequence"

SLIT_STEP_AXIS_NAME == "slit step"
SLIT_AXIS_NAME == "position along slit"
SPECTRAL_AXIS_NAME == "spectral"

\* The keyword parameters of __init__, after data_list.
InitParams(cls) ==
    IF cls = RASTER_RASTER_SEQUENCE THEN {"slit_step_axis", "meta"}
    ELSE {"common_axis", "meta"}

NDCubeSequence_init(id, cls, data_list, common_axis, meta) ==
    [id |-> id, cls |-> cls, data |-> data_list, _common_axis |-> common_axis,
     meta |-> meta]

\* np.where(np.array(world_axis_physical_types) == _spectral_name)[0]: the
\* comparison with None is False everywhere; with a binding (name, loc) it
\* is element-wise when there are two world types, broadcast when there is
\* one, and False when the shapes do not broadcast.  Indices from 1.
SpectralRasterIndex(world_axis_physical_types, spectral_name) ==
    LET n == Len(world_axis_physical_types)
    IN  IF spectral_name = None THEN {}
        ELSE IF n = 2 THEN {j \in 1..2 : world_axis_physical_types[j] = spectral_name[j]}
        ELSE IF n = 1 THEN {j \in 1..2 : world_axis_physical_types[1] = spectral_name[j]}
        ELSE {}

\* RasterSequence.__init__ of spectrogram_sequence.py.
RasterSequence_init(id, cls, data_list, common_axis, meta) ==
    LET ndim == Len(data_list[1].data.shape)
        spectral_raster_index ==
            SpectralRasterIndex(data_list[1].wcs.types, data_list[1]._spectral_name)
        labelled == [j \in 1..ndim |->
                        IF j \in spectral_raster_index THEN SPECTRAL_AXIS_NAME
                        ELSE IF common_axis # None /\ j = common_axis[1] + 1
                        THEN SLIT_STEP_AXIS_NAME
                        ELSE "None"]
        w == {j \in 1..ndim : labelled[j] = "None"}
    IN  IF (common_axis # None /\ common_axis[1] + 1 > ndim)
           \/ \E j \in spectral_raster_index : j > ndim
        THEN Raise("IndexError", "index is out of bounds")
        ELSE IF Cardinality(w) > 1
        THEN Raise("ValueError", "WCS, missing_axes, and/or common_axis not consistent.")
        ELSE [exc |-> "none",
              value |-> [id |-> id, cls |-> cls, data |-> data_list,
                         _common_axis |-> common_axis, meta |-> meta,
                         _single_scan_instrument_axes_types |->
                             [j \in 1..ndim |-> IF j \in w THEN SLIT_AXIS_NAME
                                                ELSE labelled[j]]]]

\* RasterSequence.__init__ of raster.py.
RasterRasterSequence_init(id, cls, data_list, slit_step_axis, meta) ==
    [id |-> id, cls |-> cls, data |-> data_list, _common_axis |-> slit_step_axis,
     meta |-> meta, _slit_step_axis |-> slit_step_axis, _sequence_axis |-> 0,
     _sequence_axis_name |-> "meta.obs.sequence"]

\* cls(data_list, **kwargs): a keyword that is no parameter of __init__ is
\* a TypeError; a parameter not given takes its default.
Construct(id, cls, data_list, kwargs) ==
    LET meta == IF "meta" \in DOMAIN kwargs THEN kwargs.meta ELSE None
    IN  IF ~(DOMAIN kwargs \subseteq InitParams(cls))
        THEN Raise("TypeError", "__init__() got an unexpected keyword argument")
        ELSE IF cls = RASTER_RASTER_SEQUENCE
        THEN [exc |-> "none",
              value |-> RasterRasterSequence_init(
                            id, cls, data_list,
                            IF "slit_step_axis" \in DOMAIN kwargs
                            THEN kwargs.slit_step_axis ELSE <<0>>, meta)]
        ELSE IF cls = RASTER_SEQUENCE
        THEN IF "common_axis" \notin DOMAIN kwargs
             THEN Raise("TypeError", "__init__() missing 1 required positional argument")
             ELSE RasterSequence_init(id, cls, data_list, kwargs.common_axis, meta)
        ELSE [exc |-> "none",
              value |-> NDCubeSequence_init(
                            id, cls, data_list,
                            IF "common_axis" \in DOMAIN kwargs
                            THEN kwargs.common_axis ELSE None, meta)]

(***************************************************************************)
(* The cubes and sequences the methods are called on.  The sequence has    *)
(* identity 0 and its members 1..n; the cube made from member i has        *)
(* identity n + i and a sequence made by a call 2n + 1.                    *)
(***************************************************************************)
Pattern(shape, v1, v2) ==
    [shape |-> shape, vals |-> [k \in 1..Prod(shape) |-> IF k % 2 = 1 THEN v1 ELSE v2]]

CubeShapes == {<<MaxLen>>, <<MaxLen, 2>>}

WorldOf(types) == [t \in {types[j] : j \in 1..Len(types)} |-> <<"world", t>>]

WcsOf(shape) ==
    LET types == IF Len(shape) = 1 THEN <<"em.wl">>
                 ELSE IF Len(shape) = 2 THEN <<"time", "em.wl">>
                 ELSE IF Len(shape) = 3
                 THEN <<"custom:pos.helioprojective.lon",
                        "custom:pos.helioprojective.lat", "em.wl">>
                 ELSE <<"time", "custom:pos.helioprojective.lon",
                        "custom:pos.helioprojective.lat", "em.wl">>
    IN  [types |-> types, world |-> WorldOf(types)]

\* The exposure time of a cube: absent, one time for the cube, or a time
\* for each index of one of its axes.
ExposureKinds(shape) ==
    {<<"absent">>, <<"scalar">>} \cup {<<"axis", a>> : a \in 0..(Len(shape) - 1)}

ExtraCoordsOf(shape, kind) ==
    IF kind[1] = "absent" THEN {}
    ELSE IF kind[1] = "scalar" THEN {<<"exposure time", None, Scalar(<<3, 0>>)>>}
    ELSE {<<"exposure time", <<kind[2]>>,
            Pattern(<<shape[kind[2] + 1]>>, <<3, 0>>, <<1, 1>>)>>}

MemberUnits == [base : {"photon"}, s : {0, -1}]

CubeOf(id, shape, kind, unit, with_uncertainty) ==
    Raster(id, Pattern(shape, <<13, 0>>, <<-3, -1>>), WcsOf(shape),
           ExtraCoordsOf(shape, kind), unit,
           IF with_uncertainty
           THEN [type |-> "std", array |-> Pattern(shape, <<1, 1>>, <<3, -2>>)]
           ELSE None,
           [detector |-> "NUV"], Pattern(shape, FALSE, TRUE),
           [a \in 1..Len(shape) |-> FALSE])

SequenceClasses == {SPECTROGRAM_SEQUENCE, RASTER_SEQUENCE, RASTER_RASTER_SEQUENCE}

InitKwargs(cls) ==
    IF cls = SPECTROGRAM_SEQUENCE
    THEN {[meta |-> [obs |-> "OBS 1"]], [meta |-> [obs |-> "OBS 1"], common_axis |-> <<0>>]}
    ELSE IF cls = RASTER_SEQUENCE
    THEN {[meta |-> [obs |-> "OBS 1"], common_axis |-> <<0>>]}
    ELSE {[meta |-> [obs |-> "OBS 1"], slit_step_axis |-> <<0>>]}

Init ==
    /\ inp = <<>>
    /\ res = [fn |-> "off"]
    /\ call = [pc |-> "idle"]
    /\ \E n \in 1..MaxCubes, shape \in CubeShapes, cls \in SequenceClasses :
       \E kind \in ExposureKinds(shape), units \in [1..n -> MemberUnits],
          with_uncertainty \in [1..n -> BOOLEAN], kwargs \in InitKwargs(cls) :
          LET made == Construct(0, cls,
                                [i \in 1..n |-> CubeOf(i, shape, kind, units[i],
                                                       with_uncertainty[i])],
                                kwargs)
          IN  /\ ~Raised(made)
              /\ seq = made.value

(***************************************************************************)
(* One call of apply_exposure_time_correction to a behaviour: of the       *)
(* sequence, a step for each cube of the loop and one for what follows     *)
(* it, or of one cube of the sequence.                                     *)
(***************************************************************************)
Finished(exc, value) ==
    [pc |-> "done", method |-> call.method, undo |-> call.undo, copy |-> call.copy,
     force |-> call.force, before |-> call.before, exc |-> exc, value |-> value]

SeqCall(undo, copy, force) ==
    /\ call.pc = "idle"
    /\ call' = [pc |-> "loop", method |-> "sequence", undo |-> undo, copy |-> copy,
                force |-> force, before |-> seq, converted_data_list |-> <<>>]
    /\ UNCHANGED <<inp, res, seq>>

\* A mutant of the loop that writes each corrected cube into self.data.
SeqLoop_in_place ==
    LET i == Len(call.converted_data_list) + 1
        r == Raster_apply_exposure_time_correction(
                 seq.data[i], call.undo, call.force, Len(seq.data) + i)
    IN  /\ call.pc = "loop"
        /\ i <= Len(seq.data)
        /\ IF r.exc # "none"
           THEN call' = Finished(r.exc, r.msg) /\ seq' = seq
           ELSE /\ call' = [call EXCEPT !.converted_data_list = Append(@, r.value)]
                /\ seq' = [seq EXCEPT !.data[i] = r.value]
        /\ UNCHANGED <<inp, res>>

\* One iteration of the loop: the next cube corrected and appended to
\* converted_data_list, or its exception ending the call.
SeqLoop ==
    LET i == Len(call.converted_data_list) + 1
        r == Raster_apply_exposure_time_correction(
                 seq.data[i], call.undo, call.force, Len(seq.data) + i)
    IN  /\ call.pc = "loop"
        /\ i <= Len(seq.data)
        /\ IF r.exc # "none"
           THEN call' = Finished(r.exc, r.msg)
           ELSE call' = [call EXCEPT !.converted_data_list = Append(@, r.value)]
        /\ seq' = [seq EXCEPT !.data[i] = r.self]
        /\ UNCHANGED <<inp, res>>

\* A mutant of the end of the call that extends self.data.
SeqEnd_extending ==
    LET made == Construct(2 * Len(seq.data) + 1, seq.cls, call.converted_data_list,
                          [meta |-> seq.meta, common_axis |-> seq._common_axis])
    IN  /\ call.pc = "loop"
        /\ Len(call.converted_data_list) = Len(seq.data)
        /\ IF call.copy = TRUE
           THEN /\ call' = IF Raised(made) THEN Finished(made.exc, made.msg)
                           ELSE Finished("none", made.value)
                /\ seq' = seq
           ELSE /\ call' = Finished("none", None)
                /\ seq' = [seq EXCEPT !.data = @ \o call.converted_data_list]
        /\ UNCHANGED <<inp, res>>

\* After the loop: the new sequence constructed and returned, or
\* self.data assigned.
SeqEnd ==
    LET made == Construct(2 * Len(seq.data) + 1, seq.cls, call.converted_data_list,
                          [meta |-> seq.meta, common_axis |-> seq._common_axis])
    IN  /\ call.pc = "loop"
        /\ Len(call.converted_data_list) = Len(seq.data)
        /\ IF call.copy = TRUE
           THEN /\ call' = IF Raised(made) THEN Finished(made.exc, made.msg)
                           ELSE Finished("none", made.value)
                /\ seq' = seq
           ELSE /\ call' = Finished("none", None)
                /\ seq' = [seq EXCEPT !.data = call.converted_data_list]
        /\ UNCHANGED <<inp, res>>

\* A call of the method of cube k of the sequence.
CubeCall(k, undo, force) ==
    LET r == Raster_apply_exposure_time_correction(
                 seq.data[k], undo, force, Len(seq.data) + k)
    IN  /\ call.pc = "idle"
        /\ call' = [pc |-> "done", method |-> "cube", k |-> k, undo |-> undo,
                    force |-> force, before |-> seq, exc |-> r.exc,
                    value |-> IF r.exc # "none" THEN r.msg ELSE r.value]
        /\ seq' = [seq EXCEPT !.data[k] = r.self]
        /\ UNCHANGED <<inp, res>>

Next ==
    \/ \E undo \in BOOLEAN, copy \in BOOLEAN, force \in BOOLEAN : SeqCall(undo, copy, force)
    \/ SeqLoop
    \/ SeqEnd
    \/ \E k \in 1..Len(seq.data), undo \in BOOLEAN, force \in BOOLEAN :
          CubeCall(k, undo, force)

Spec == Init /\ [][Next]_vars

(***************************************************************************)
(* Slicing.  An index entry is <<"int", i>> or <<"slice", start, stop>>,   *)
(* counted from 0, the stop excluded; an item is the tuple of its entries, *)
(* or a single entry that is not a tuple.                                  *)
(***************************************************************************)
IsInt(entry) == entry[1] = "int"

\* The entries of a cube item, with slice(None) for the axes it leaves out.
FullItem(shape, cube_item) ==
    [a \in 1..Len(shape) |->
        IF a <= Len(cube_item) THEN cube_item[a] ELSE <<"slice", 0, shape[a]>>]

\* The axes, from 1, that the item keeps.
RECURSIVE KeptAxes(_, _)
KeptAxes(full, a) ==
    IF a > Len(full) THEN <<>>
    ELSE (IF IsInt(full[a]) THEN <<>> ELSE <<a>>) \o KeptAxes(full, a + 1)

\* The 0-based flat position, in an array of the given shape, of the
\* element at 0-based flat position k of the sliced array of shape ns;
\* p is the axis of ns that axis a becomes.
RECURSIVE SliceIndex(_, _, _, _, _, _)
SliceIndex(shape, full, ns, k, a, p) ==
    IF a > Len(shape) THEN 0
    ELSE IF IsInt(full[a])
    THEN full[a][2] * Stride(shape, a) + SliceIndex(shape, full, ns, k, a + 1, p)
    ELSE (full[a][2] + ((k \div Stride(ns, p)) % ns[p])) * Stride(shape, a)
         + SliceIndex(shape, full, ns, k, a + 1, p + 1)

\* array[item]
SliceArray(array, cube_item) ==
    LET full == FullItem(array.shape, cube_item)
        kept == KeptAxes(full, 1)
        ns == [p \in 1..Len(kept) |-> full[kept[p]][3] - full[kept[p]][2]]
    IN  [shape |-> ns,
         vals |-> [k \in 1..Prod(ns) |->
                      array.vals[SliceIndex(array.shape, full, ns, k - 1, 1, 1) + 1]]]

\* The index in missing_axes of data axis a: that of its a-th FALSE.
RECURSIVE DataAxisInMissing(_, _, _)
DataAxisInMissing(missing_axes, a, m) ==
    IF missing_axes[m] = FALSE
    THEN IF a = 1 THEN m ELSE DataAxisInMissing(missing_axes, a - 1, m + 1)
    ELSE DataAxisInMissing(missing_axes, a, m + 1)

\* NDCube.__getitem__ followed by the construction of Raster.__getitem__:
\* data, uncertainty and mask are sliced; an axis indexed by an integer
\* is dropped from the world types and marked missing; an extra
\* coordinate of a dropped axis keeps the one value at the index, with no
\* axis, and one of a kept axis is sliced and follows its axis.
Raster_getitem(self, cube_item, new_id) ==
    LET full == FullItem(self.data.shape, cube_item)
        kept == KeptAxes(full, 1)
        NewAxis(a) == CHOOSE p \in 1..Len(kept) : kept[p] = a
        types == [p \in 1..Len(kept) |-> self.wcs.types[kept[p]]]
        dropped == {DataAxisInMissing(self.missing_axes, a, 1) :
                       a \in {x \in 1..Len(full) : IsInt(full[x])}}
        missing_axes == [m \in 1..Len(self.missing_axes) |->
                            self.missing_axes[m] \/ m \in dropped]
        SlicedCoord(c) ==
            IF c.axis = None THEN c
            ELSE IF IsInt(full[c.axis[1] + 1])
            THEN [axis |-> None, value |-> Scalar(c.value.vals[full[c.axis[1] + 1][2] + 1])]
            ELSE [axis |-> <<NewAxis(c.axis[1] + 1) - 1>>,
                  value |-> SliceArray(c.value, <<full[c.axis[1] + 1]>>)]
        extra_coords ==
            IF self.extra_coords = None THEN {}
            ELSE convert_extra_coords_dict_to_input_format(
                     [key \in DOMAIN self.extra_coords |-> SlicedCoord(self.extra_coords[key])],
                     missing_axes)
    IN  Raster(new_id, SliceArray(self.data, cube_item),
               [types |-> types, world |-> WorldOf(types)],
               extra_coords, self.unit,
               IF self.uncertainty = None THEN None
               ELSE [type |-> self.uncertainty.type,
                     array |-> SliceArray(self.uncertainty.array, cube_item)],
               self.meta,
               IF self.mask = None THEN None ELSE SliceArray(self.mask, cube_item),
               missing_axes)

\* NDCubeSequence.__getitem__ (ndcube.utils.sequence.slice_sequence): an
\* integer for the sequence picks one cube, a slice a copy of the
\* sequence with the cubes it selects; the other entries index each cube.
NDCubeSequence_getitem(self, item) ==
    LET first == item.entries[1]
        cube_item == Tail(item.entries)
        n == Len(self.data)
    IN  IF IsInt(first)
        THEN [exc |-> "none", kind |-> "cube",
              value |-> IF item.tuple
                        THEN Raster_getitem(self.data[first[2] + 1], cube_item,
                                            n + first[2] + 1)
                        ELSE self.data[first[2] + 1]]
        ELSE [exc |-> "none", kind |-> "sequence",
              value |-> [self EXCEPT
                            !.id = 2 * n + 1,
                            !.data = [i \in 1..(first[3] - first[2]) |->
                                         Raster_getitem(self.data[first[2] + i], cube_item,
                                                        n + first[2] + i)]]]

\* A mutant of RasterSequence.__getitem__ that slices as its parent does.
RasterSequence_getitem_of_parent(self, item) == NDCubeSequence_getitem(self, item)

\* RasterSequence.__getitem__ of spectrogram_sequence.py.
RasterSequence_getitem(self, item) ==
    Raise("NotImplementedError",
          "Use RasterSequence.slice_as_raster or RasterSequence.slice_as_SnS.")

\* seq[item], by the class of seq.
Sequence_getitem(self, item) ==
    IF self.cls = RASTER_SEQUENCE THEN RasterSequence_getitem(self, item)
    ELSE NDCubeSequence_getitem(self, item)

\* _slice_scan_axis_types: the labels of the axes that no integer
\* indexes; a boolean index longer than the labels is an IndexError.
slice_scan_axis_types(single_scan_axes_types, item) ==
    LET not_int_axis_items ==
            [a \in 1..Max(Len(item), Len(single_scan_axes_types)) |->
                IF a <= Len(item) THEN ~IsInt(item[a]) ELSE TRUE]
        RECURSIVE Selected(_)
        Selected(a) ==
            IF a > Len(single_scan_axes_types) THEN <<>>
            ELSE (IF not_int_axis_items[a] THEN <<single_scan_axes_types[a]>> ELSE <<>>)
                 \o Selected(a + 1)
    IN  IF Len(not_int_axis_items) # Len(single_scan_axes_types)
        THEN Raise("IndexError", "boolean index did not match indexed array")
        ELSE [exc |-> "none", value |-> Selected(1)]

\* _SequenceSlicer.__getitem__ of spectrogram_sequence.py.
SequenceSlicer_getitem(self, item) ==
    LET result == NDCubeSequence_getitem(self, item)
        rest == Tail(item.entries)
        demoted == Construct(result.value.id, SPECTROGRAM_SEQUENCE, result.value.data,
                             [common_axis |-> None, meta |-> result.value.meta])
        types == slice_scan_axis_types(self._single_scan_instrument_axes_types, rest)
    IN  IF ~item.tuple \/ result.kind # "sequence" THEN result
        ELSE IF Len(item.entries) > self._common_axis[1]
                /\ Len(rest) < self._common_axis[1] + 1
        THEN Raise("IndexError", "tuple index out of range")
        ELSE IF Len(item.entries) > self._common_axis[1]
                /\ IsInt(rest[self._common_axis[1] + 1])
        THEN [exc |-> "none", kind |-> "sequence", value |-> demoted.value]
        ELSE IF Raised(types) THEN types
        ELSE [exc |-> "none", kind |-> "sequence",
              value |-> [result.value EXCEPT
                            !._single_scan_instrument_axes_types = types.value]]

\* seq.slice_as_raster[item], by the class of seq: SpectrogramSequence has
\* no such view, and the slicer of raster.py slices as ndcube does.
Slice_as_raster(self, item) ==
    IF self.cls = SPECTROGRAM_SEQUENCE
    THEN Raise("AttributeError", "object has no attribute 'slice_as_raster'")
    ELSE IF self.cls = RASTER_SEQUENCE THEN SequenceSlicer_getitem(self, item)
    ELSE NDCubeSequence_getitem(self, item)

\* The entry of an index at a position, a full slice when it stops before.
EntryAt(entries, a, length) ==
    IF a <= Len(entries) THEN entries[a] ELSE <<"slice", 0, length>>

\* The part of a slice of the flattened axis that falls in cube j, each
\* cube being `length` long on the common axis.
LocalSlice(entry, j, length) ==
    <<"slice", Max(entry[2] - (j - 1) * length, 0),
               IF entry[3] - (j - 1) * length < length
               THEN entry[3] - (j - 1) * length ELSE length>>

\* utils.sequence._slice_sequence_as_SnS: the sequence indexed as one cube
\* whose common axis runs through the cubes one after the other.  An
\* integer on that axis picks an index of one cube, a slice the cubes it
\* overlaps, each cut to its part of the slice.
slice_sequence_as_SnS(self, item) ==
    LET n == Len(self.data)
        common == self._common_axis[1] + 1
        length == self.data[1].data.shape[common]
        entry == EntryAt(item.entries, common, n * length)
        cube_item(local) ==
            [a \in 1..Max(Len(item.entries), common) |->
                IF a = common THEN local
                ELSE EntryAt(item.entries, a, self.data[1].data.shape[a])]
        overlapped == {j \in 1..n : LocalSlice(entry, j, length)[2]
                                       < LocalSlice(entry, j, length)[3]}
        first == CHOOSE j \in overlapped : \A k \in overlapped : j <= k
    IN  IF IsInt(entry)
        THEN [exc |-> "none", kind |-> "cube",
              value |-> Raster_getitem(self.data[(entry[2] \div length) + 1],
                                       cube_item(<<"int", entry[2] % length>>),
                                       n + (entry[2] \div length) + 1)]
        ELSE [exc |-> "none", kind |-> "sequence",
              value |-> [self EXCEPT
                            !.id = 2 * n + 1,
                            !.data = [i \in 1..Cardinality(overlapped) |->
                                         Raster_getitem(
                                             self.data[first + i - 1],
                                             cube_item(LocalSlice(entry, first + i - 1, length)),
                                             n + first + i - 1)]]]

\* result._single_scan_instrument_axes_types = types, on a sequence or a cube.
WithLabels(result, types) ==
    [result EXCEPT !.value =
        [f \in DOMAIN result.value \cup {"_single_scan_instrument_axes_types"} |->
            IF f = "_single_scan_instrument_axes_types" THEN types ELSE result.value[f]]]

\* A mutant of the slicer that drops the labels by item[1:].
SnSSlicer_getitem_by_rest(self, item) ==
    LET result == slice_sequence_as_SnS(self, item)
        types == slice_scan_axis_types(self._single_scan_instrument_axes_types,
                                       Tail(item.entries))
    IN  IF item.tuple /\ ~IsInt(item.entries[1])
        THEN IF Raised(types) THEN types ELSE WithLabels(result, types.value)
        ELSE result

\* _SnSSlicer.__getitem__ of spectrogram_sequence.py.
SnSSlicer_getitem(self, item) ==
    LET result == slice_sequence_as_SnS(self, item)
        types == slice_scan_axis_types(self._single_scan_instrument_axes_types,
                                       item.entries)
    IN  IF item.tuple /\ ~IsInt(item.entries[1])
        THEN IF Raised(types) THEN types ELSE WithLabels(result, types.value)
        ELSE result

\* seq.slice_as_SnS[item], by the class of seq: SpectrogramSequence has no
\* such view, and the slicer of raster.py leaves the result as it is.
Slice_as_SnS(self, item) ==
    IF self.cls = SPECTROGRAM_SEQUENCE
    THEN Raise("AttributeError", "object has no attribute 'slice_as_SnS'")
    ELSE IF self.cls = RASTER_SEQUENCE THEN SnSSlicer_getitem(self, item)
    ELSE slice_sequence_as_SnS(self, item)

\* seq.slice_as_raster and seq.slice_as_SnS: a slicer of the sequence.
View(self, view) ==
    IF self.cls = SPECTROGRAM_SEQUENCE
    THEN Raise("AttributeError", "object has no attribute of that name")
    ELSE [exc |-> "none",
          value |-> [slicer |-> IF view = "slice_as_raster" THEN "_SequenceSlicer"
                                ELSE "_SnSSlicer",
                     seq |-> self]]

(***************************************************************************)
(* Building a sequence and indexing it: the constructor is called on a     *)
(* list of cubes, and the sequence it returns is indexed directly, through *)
(* its as-raster view, or asked for one of its views.                      *)
(***************************************************************************)
SliceShapes == {<<MaxLen>>, <<MaxLen, 2>>, <<MaxLen, 1, 2>>}

SliceKwargs(cls) ==
    IF cls = SPECTROGRAM_SEQUENCE
    THEN {[meta |-> [obs |-> "OBS 1"]], [meta |-> [obs |-> "OBS 1"], common_axis |-> <<0>>]}
    ELSE IF cls = RASTER_SEQUENCE
    THEN {[meta |-> [obs |-> "OBS 1"], common_axis |-> <<0>>],
          [meta |-> [obs |-> "OBS 1"], common_axis |-> <<1>>]}
    ELSE {[meta |-> [obs |-> "OBS 1"], slit_step_axis |-> <<0>>]}

\* The entries of an index: <<"int", i>> or <<"slice", start, stop>>.  A
\* slice of the sequence selects two cubes or more.
SeqEntries(n) ==
    {<<"int", i>> : i \in {0, n - 1}}
    \cup {<<"slice", lo, hi>> : lo \in {0}, hi \in {h \in 2..n : h - 0 >= 2}}
    \cup {<<"slice", lo, hi>> : lo \in {1}, hi \in {h \in 3..n : h - 1 >= 2}}

AxisEntries(length) ==
    {<<"int", 0>>, <<"slice", 0, length>>}
    \cup (IF length >= 2 THEN {<<"slice", 1, length>>} ELSE {})

\* The indices of the cubes of a shape: fewer entries than axes or one for
\* each, and a cube left with an axis.
CubeItems(shape) ==
    UNION {{ci \in [1..k -> UNION {AxisEntries(shape[a]) : a \in 1..Len(shape)}] :
               /\ \A a \in 1..k : ci[a] \in AxisEntries(shape[a])
               /\ (k = Len(shape) => \E a \in 1..k : ~IsInt(ci[a]))} :
           k \in 0..Len(shape)}

Items(n, shape) ==
    {[tuple |-> FALSE, entries |-> <<e>>] : e \in SeqEntries(n)}
    \cup {[tuple |-> TRUE, entries |-> <<e>> \o ci] :
             e \in SeqEntries(n), ci \in CubeItems(shape)}

InitSlice ==
    /\ inp = <<>>
    /\ res = [fn |-> "off"]
    /\ seq = None
    /\ \E n \in 1..MaxCubes, shape \in SliceShapes, cls \in SequenceClasses :
       \E kind \in {<<"scalar">>, <<"axis", 0>>}, kwargs \in SliceKwargs(cls) :
          call = [pc |-> "new", cls |-> cls, kwargs |-> kwargs,
                  data_list |-> [i \in 1..n |->
                                    CubeOf(i, shape, kind, [base |-> "photon", s |-> 0],
                                           TRUE)]]

\* seq = cls(data_list, **kwargs)
MakeSequence ==
    /\ call.pc = "new"
    /\ LET made == Construct(0, call.cls, call.data_list, call.kwargs)
       IN  IF Raised(made)
           THEN /\ call' = [pc |-> "done", method |-> "init", cls |-> call.cls,
                            kwargs |-> call.kwargs, data_list |-> call.data_list,
                            exc |-> made.exc, value |-> made.msg]
                /\ seq' = seq
           ELSE /\ call' = [pc |-> "idle"]
                /\ seq' = made.value
    /\ UNCHANGED <<inp, res>>

\* seq[item]
GetItem(item) ==
    /\ call.pc = "idle"
    /\ LET r == Sequence_getitem(seq, item)
       IN  call' = [pc |-> "done", method |-> "getitem", item |-> item, before |-> seq,
                    exc |-> r.exc,
                    value |-> IF Raised(r) THEN r.msg ELSE [kind |-> r.kind, obj |-> r.value]]
    /\ UNCHANGED <<inp, res, seq>>

\* seq.slice_as_raster[item]
SliceAsRaster(item) ==
    /\ call.pc = "idle"
    /\ LET r == Slice_as_raster(seq, item)
       IN  call' = [pc |-> "done", method |-> "slice_as_raster", item |-> item,
                    before |-> seq, exc |-> r.exc,
                    value |-> IF Raised(r) THEN r.msg ELSE [kind |-> r.kind, obj |-> r.value]]
    /\ UNCHANGED <<inp, res, seq>>

\* The indices of the sit-and-stare view: an entry for each cube axis up to
\* where the index stops, that of the common axis running through the
\* cubes; a slice of that axis overlaps two cubes or more.
CommonEntries(n, length) ==
    {<<"int", i>> : i \in {0, n * length - 1}}
    \cup (IF n >= 2 THEN {<<"slice", 0, n * length>>, <<"slice", 1, n * length>>} ELSE {})

SnSCubeItems(n, shape, common) ==
    UNION {{ci \in [1..k -> UNION {AxisEntries(shape[a]) : a \in 1..Len(shape)}
                               \cup CommonEntries(n, shape[common])] :
               /\ \A a \in 1..k : ci[a] \in (IF a = common
                                             THEN CommonEntries(n, shape[common])
                                             ELSE AxisEntries(shape[a]))
               /\ (k < common => n >= 2)
               /\ (k = Len(shape) => \E a \in 1..k : ~IsInt(ci[a]))} :
           k \in 1..Len(shape)}

SnSItems(n, shape, common) ==
    {[tuple |-> TRUE, entries |-> ci] : ci \in SnSCubeItems(n, shape, common)}
    \cup {[tuple |-> FALSE, entries |-> ci] :
             ci \in {c \in SnSCubeItems(n, shape, common) : Len(c) = 1}}

\* seq.slice_as_SnS[item]
SliceAsSnS(item) ==
    /\ call.pc = "idle"
    /\ LET r == Slice_as_SnS(seq, item)
       IN  call' = [pc |-> "done", method |-> "slice_as_SnS", item |-> item,
                    before |-> seq, exc |-> r.exc,
                    value |-> IF Raised(r) THEN r.msg ELSE [kind |-> r.kind, obj |-> r.value]]
    /\ UNCHANGED <<inp, res, seq>>

\* seq.slice_as_raster or seq.slice_as_SnS, first or after seq[item].
ReadView(view) ==
    /\ call.pc = "idle" \/ (call.pc = "done" /\ call.method = "getitem")
    /\ LET r == View(seq, view)
       IN  call' = [pc |-> "done", method |-> "view", view |-> view, before |-> seq,
                    after |-> IF call.pc = "idle" THEN "nothing" ELSE call.exc,
                    exc |-> r.exc,
                    value |-> IF Raised(r) THEN r.msg ELSE r.value]
    /\ UNCHANGED <<inp, res, seq>>

\* The indices tried on the sequence, once it is built.
SeqItems == IF seq = None THEN {} ELSE Items(Len(seq.data), seq.data[1].data.shape)

\* The indices tried on the sit-and-stare view of the sequence.
SeqSnSItems ==
    IF seq = None \/ seq._common_axis = None THEN {}
    ELSE SnSItems(Len(seq.data), seq.data[1].data.shape, seq._common_axis[1] + 1)

NextSlice ==
    \/ MakeSequence
    \/ \E item \in SeqItems : GetItem(item)
    \/ \E item \in SeqItems : SliceAsRaster(item)
    \/ \E item \in SeqSnSItems : SliceAsSnS(item)
    \/ \E view \in {"slice_as_raster", "slice_as_SnS"} : ReadView(view)

SpecSlice == InitSlice /\ [][NextSlice]_vars

(***************************************************************************)
(* One cube: its role accessors read, or its exposure time correction      *)
(* applied.                                                                *)
(***************************************************************************)
\* The names bound at the top level of raster.py that the accessors use.
ModuleNames ==
    {"AXIS_NOT_FOUND_ERROR", "SUPPORTED_LONGITUDE_NAMES", "SUPPORTED_LATITUDE_NAMES",
     "SUPPORTED_SPECTRAL_NAMES", "SUPPORTED_TIME_NAMES", "SUPPORTED_EXPOSURE_NAMES"}

Roles == {"spectral", "time", "exposure_time", "lon", "lat"}

\* The binding the accessor of a role tests.
RoleBinding(self, role) ==
    IF role = "spectral" THEN self._spectral_name
    ELSE IF role = "time" THEN self._time_name
    ELSE IF role = "exposure_time" THEN self._exposure_time_name
    ELSE IF role = "lon" THEN self._longitude_name
    ELSE self._latitude_name

\* The words its message starts with.
RoleLabel(role) ==
    IF role = "spectral" THEN "Spectral"
    ELSE IF role = "time" THEN "Time"
    ELSE IF role = "exposure_time" THEN "Exposure time"
    ELSE IF role = "lon" THEN "Longitude"
    ELSE "Latitude"

\* The name its message reads the synonyms from.
RoleListName(role) ==
    IF role = "spectral" THEN "SUPPORTED_SPECTRAL_NAMES"
    ELSE IF role = "time" THEN "SUPPORTED_TIMES_NAMES"
    ELSE IF role = "exposure_time" THEN "SUPPORTED_EXPOSURE_NAMES"
    ELSE IF role = "lon" THEN "SUPPORTED_LONGITUDE_NAMES"
    ELSE "SUPPORTED_LATITUDE_NAME"

\* The value of a name of the module.
Global(name) ==
    IF name = "SUPPORTED_SPECTRAL_NAMES" THEN SUPPORTED_SPECTRAL_NAMES
    ELSE IF name = "SUPPORTED_TIME_NAMES" THEN SUPPORTED_TIME_NAMES
    ELSE IF name = "SUPPORTED_EXPOSURE_NAMES" THEN SUPPORTED_EXPOSURE_NAMES
    ELSE IF name = "SUPPORTED_LONGITUDE_NAMES" THEN SUPPORTED_LONGITUDE_NAMES
    ELSE IF name = "SUPPORTED_LATITUDE_NAMES" THEN SUPPORTED_LATITUDE_NAMES
    ELSE AXIS_NOT_FOUND_ERROR

\* Raster.spectral, .time, .exposure_time, .lon, .lat: evaluating the
\* message of the error looks the list up by name, a NameError when the
\* module binds no such name.
Raster_accessor(self, role) ==
    IF RoleBinding(self, role) = None
    THEN IF RoleListName(role) \notin ModuleNames
         THEN Raise("NameError", <<"name ", RoleListName(role), " is not defined">>)
         ELSE Raise("ValueError",
                    <<RoleLabel(role), AXIS_NOT_FOUND_ERROR, Global(RoleListName(role))>>)
    ELSE [exc |-> "none",
          value |-> get_axis_coord(self, RoleBinding(self, role)[1],
                                   RoleBinding(self, role)[2])]

\* Cubes that differ in their names: world types and extra coordinates.
WorldTypePool ==
    {"em.wl", "time", "custom:pos.helioprojective.lon", "custom:pos.helioprojective.lat"}
ExtraKeyPool == {"exposure time", "wavelength", "em.wl", "time"}

TypeLists == UNION {[1..n -> WorldTypePool] : n \in 1..MaxAxes}

ShapeOfRank(n) == [a \in 1..n |-> IF a = 1 THEN MaxLen ELSE IF a = n THEN 2 ELSE 1]

NamedCube(types, keys) ==
    Raster(1, Pattern(ShapeOfRank(Len(types)), <<13, 0>>, <<-3, -1>>),
           [types |-> types, world |-> WorldOf(types)],
           {<<key, IF key = "exposure time" THEN None ELSE <<0>>,
              IF key = "exposure time" THEN Scalar(<<3, 0>>)
              ELSE Pattern(<<MaxLen>>, <<1, 0>>, <<1, 1>>)>> : key \in keys},
           [base |-> "photon", s |-> 0],
           [type |-> "std",
            array |-> Pattern(ShapeOfRank(Len(types)), <<1, 1>>, <<3, -2>>)],
           [detector |-> "NUV"], None, [a \in 1..Len(types) |-> FALSE])

\* Cubes that differ in their rank, exposure time, unit and uncertainty.
CubeRanks == {1, 2, 3, 4}

ShapedCubes ==
    UNION {{CubeOf(1, ShapeOfRank(n), kind, unit, with_uncertainty) :
               kind \in ExposureKinds(ShapeOfRank(n)), unit \in MemberUnits,
               with_uncertainty \in BOOLEAN} : n \in CubeRanks}

InitCube ==
    /\ inp \in {NamedCube(types, keys) : types \in TypeLists, keys \in SUBSET ExtraKeyPool}
                  \cup ShapedCubes
    /\ res = [fn |-> "none"]
    /\ seq = <<>>
    /\ call = [pc |-> "off"]

ReadRole(role) ==
    /\ res.fn = "none"
    /\ res' = [fn |-> "read", role |-> role, out |-> Raster_accessor(inp, role)]
    /\ UNCHANGED <<inp, seq, call>>

ApplyCube(undo, force) ==
    LET r == Raster_apply_exposure_time_correction(inp, undo, force, 2)
    IN  /\ res.fn = "none"
        /\ res' = [fn |-> "apply", undo |-> undo, force |-> force,
                   out |-> [x \in DOMAIN r \ {"self"} |-> r[x]]]
        /\ inp' = r.self
        /\ UNCHANGED <<seq, call>>

NextCube ==
    \/ \E role \in Roles : ReadRole(role)
    \/ \E undo \in BOOLEAN, force \in BOOLEAN : ApplyCube(undo, force)

SpecCube == InitCube /\ [][NextCube]_vars

(***************************************************************************)
(* Calls of apply_exposure_time_correction one after the other, none of    *)
(* them forced, on a cube or a sequence whose unit has no seconds.  A call *)
(* on a cube returns a new cube and the next call is made on that one; a   *)
(* call on a sequence with copy=True likewise, and with copy=False on the  *)
(* sequence itself.                                                        *)
(***************************************************************************)
MaxCalls == 3

\* converted_data_list with the cube r, corrected, before those that follow
\* it; the exception of the first cube that raises one ends the loop.
Prepended(r, rest) ==
    IF r.exc # "none" THEN Raise(r.exc, r.msg)
    ELSE IF Raised(rest) THEN rest
    ELSE [exc |-> "none", value |-> <<r.value>> \o rest.value]

\* The loop of the sequence methods from cube i on.
RECURSIVE converted_data_list_from(_, _, _, _)
converted_data_list_from(self, undo, force, i) ==
    IF i > Len(self.data) THEN [exc |-> "none", value |-> <<>>]
    ELSE Prepended(Raster_apply_exposure_time_correction(self.data[i], undo, force,
                                                         Len(self.data) + i),
                   converted_data_list_from(self, undo, force, i + 1))

\* After the loop: the new sequence returned, or self.data assigned.
Sequence_apply_end(self, copy, converted_data_list, made) ==
    IF Raised(converted_data_list)
    THEN [self |-> self, exc |-> converted_data_list.exc, msg |-> converted_data_list.msg]
    ELSE IF copy = TRUE
    THEN IF Raised(made) THEN [self |-> self, exc |-> made.exc, msg |-> made.msg]
         ELSE [self |-> self, exc |-> "none", value |-> made.value]
    ELSE [self |-> [self EXCEPT !.data = converted_data_list.value],
          exc |-> "none", value |-> None]

\* cls(converted_data_list, meta=self.meta, common_axis=self._common_axis)
Sequence_copy(self, converted_data_list) ==
    IF Raised(converted_data_list) THEN converted_data_list
    ELSE Construct(2 * Len(self.data) + 1, self.cls, converted_data_list.value,
                   [meta |-> self.meta, common_axis |-> self._common_axis])

Sequence_apply_from(self, copy, converted_data_list) ==
    Sequence_apply_end(self, copy, converted_data_list,
                       Sequence_copy(self, converted_data_list))

\* A mutant of the method of the sequences that forces the correction.
Sequence_apply_forced(self, undo, copy, force) ==
    Sequence_apply_from(self, copy, converted_data_list_from(self, undo, TRUE, 1))

\* SpectrogramSequence.apply_exposure_time_correction and that of the
\* RasterSequence of raster.py, as one step.
Sequence_apply_exposure_time_correction(self, undo, copy, force) ==
    Sequence_apply_from(self, copy, converted_data_list_from(self, undo, force, 1))

ChainCubes ==
    {CubeOf(1, shape, kind, [base |-> "photon", s |-> 0], with_uncertainty) :
        shape \in CubeShapes, kind \in {<<"absent">>, <<"scalar">>, <<"axis", 0>>},
        with_uncertainty \in BOOLEAN}

ChainKinds == {"cube", "sequence"}

InitChain ==
    /\ seq = <<>>
    /\ call = [pc |-> "off"]
    /\ \E kind \in ChainKinds, cube \in ChainCubes, n \in 1..MaxCubes,
          cls \in SequenceClasses :
       \E kwargs \in InitKwargs(cls) :
          LET made == Construct(0, cls, [i \in 1..n |-> [cube EXCEPT !.id = i]], kwargs)
              obj == IF kind = "cube" THEN cube ELSE made.value
          IN  /\ kind = "sequence" => ~Raised(made)
              /\ inp = [kind |-> kind, obj |-> obj]
              /\ res = [fn |-> "chain", n |-> 0, done |-> 0, original |-> obj,
                        before |-> obj, last |-> <<>>, prev |-> <<>>]

\* What the next call is made on, and the record of this one.
Chained(undo, r, next) ==
    /\ inp' = [inp EXCEPT !.obj = next]
    /\ res' = [res EXCEPT !.n = @ + 1,
                          !.done = IF r.exc = "none" THEN @ + 1 ELSE @,
                          !.before = inp.obj,
                          !.last = <<undo, r.exc>>,
                          !.prev = res.last]
    /\ UNCHANGED <<seq, call>>

\* cube = cube.apply_exposure_time_correction(undo=undo)
ChainCubeCall(undo) ==
    /\ res.n < MaxCalls
    /\ inp.kind = "cube"
    /\ \E r \in {Raster_apply_exposure_time_correction(inp.obj, undo, FALSE, 2)} :
          Chained(undo, r, IF r.exc = "none" THEN r.value ELSE r.self)

\* seq.apply_exposure_time_correction(undo=undo), or
\* seq = seq.apply_exposure_time_correction(undo=undo, copy=True)
ChainSequenceCall(undo, copy) ==
    /\ res.n < MaxCalls
    /\ inp.kind = "sequence"
    /\ \E r \in {Sequence_apply_exposure_time_correction(inp.obj, undo, copy, FALSE)} :
          Chained(undo, r, IF r.exc = "none" /\ copy THEN r.value ELSE r.self)

NextChain ==
    \/ \E undo \in BOOLEAN : ChainCubeCall(undo)
    \/ \E undo \in BOOLEAN, copy \in BOOLEAN : ChainSequenceCall(undo, copy)

SpecChain == InitChain /\ [][NextChain]_vars

(***************************************************************************)
(* Raster._world_types_to_pixel_axes: from names of world types to the     *)
(* pixel axes they belong to.  An axis number is <<"int", <<a>>>> here and *)
(* a tuple of them <<"tuple", <<a, b>>>>.                                   *)
(***************************************************************************)
\* utils.cube.get_axis_number_from_axis_name: the one world type that
\* contains the name.
get_axis_number_from_axis_name(axis_name, world_axis_physical_types) ==
    LET axis_index == {j \in 1..Len(world_axis_physical_types) :
                          Contains(axis_name, world_axis_physical_types[j])}
    IN  IF Cardinality(axis_index) # 1
        THEN Raise("ValueError",
                   "User defined axis with a string that is not unique to a physical axis type.")
        ELSE [exc |-> "none", value |-> (CHOOSE j \in axis_index : TRUE) - 1]

\* utils.wcs.get_dependent_data_axes: the pixel axes the world axis is
\* correlated with.  Longitude and latitude share their pixel axes, every
\* other world axis has its own.
get_dependent_data_axes(wcs, axis, missing_axes) ==
    LET celestial == {"custom:pos.helioprojective.lon", "custom:pos.helioprojective.lat"}
        RECURSIVE Axes(_)
        Axes(j) == IF j > Len(wcs.types) THEN <<>>
                   ELSE (IF wcs.types[j] \in celestial THEN <<j - 1>> ELSE <<>>) \o Axes(j + 1)
    IN  IF wcs.types[axis + 1] \in celestial THEN Axes(1) ELSE <<axis>>

\* The loop of _world_types_to_pixel_axes from the i-th name on;
\* dependent_axes is the local variable of that name, which a name found
\* nowhere leaves as the name before it set it.
RECURSIVE world_types_to_pixel_axes_from(_, _, _, _, _, _)
world_types_to_pixel_axes_from(self, axes_names, include_extra_coords, i, dependent_axes, axes) ==
    IF i > Len(axes_names) THEN [exc |-> "none", value |-> axes]
    ELSE
    LET name == axes_names[i]
        found == get_axis_number_from_axis_name(name, self.wcs.types)
        name_in_wcs == ~Raised(found)
        from_wcs == IF name_in_wcs
                    THEN <<"tuple", get_dependent_data_axes(self.wcs, found.value,
                                                            self.missing_axes)>>
                    ELSE dependent_axes
        keys == IF self.extra_coords = None THEN {}
                ELSE {key \in DOMAIN self.extra_coords : Contains(name, key)}
        n_instances_in_extra_coords == Cardinality(keys)
        from_extra == IF self.extra_coords[name].axis = None THEN <<"None", <<>>>>
                      ELSE <<"int", self.extra_coords[name].axis>>
        final == IF include_extra_coords /\ n_instances_in_extra_coords = 1
                 THEN from_extra ELSE from_wcs
    IN  IF include_extra_coords /\ self.extra_coords = None
        THEN Raise("AttributeError", "'NoneType' object has no attribute 'keys'")
        ELSE IF include_extra_coords
                /\ ((name_in_wcs /\ n_instances_in_extra_coords > 0)
                    \/ n_instances_in_extra_coords > 1)
        THEN Raise("ValueError", "axis name provided not unique.")
        ELSE IF include_extra_coords /\ n_instances_in_extra_coords = 1
                /\ name \notin DOMAIN self.extra_coords
        THEN Raise("KeyError", name)
        ELSE IF final[1] = "unbound"
        THEN Raise("UnboundLocalError",
                   "local variable 'dependent_axes' referenced before assignment")
        ELSE IF final[1] = "None"
        THEN Raise("TypeError", "object of type 'NoneType' has no len()")
        ELSE world_types_to_pixel_axes_from(
                 self, axes_names, include_extra_coords, i + 1, final,
                 Append(axes, IF final[1] = "tuple" /\ Len(final[2]) = 1
                              THEN <<"int", final[2]>> ELSE final))

Raster_world_types_to_pixel_axes(self, axes_names, include_extra_coords) ==
    world_types_to_pixel_axes_from(
        self, IF axes_names = <<>> THEN self.wcs.types ELSE axes_names,
        include_extra_coords, 1, <<"unbound", <<>>>>, <<>>)

LookupTypeLists ==
    {<<"em.wl">>, <<"time", "em.wl">>, <<"em.wl", "em.wl">>,
     <<"custom:pos.helioprojective.lon", "custom:pos.helioprojective.lat", "em.wl">>}

LookupNames ==
    {"em.wl", "time", "exposure time", "wavelength", "pos",
     "custom:pos.helioprojective.lon", "energy"}

MaxNames == 2

NameLists == UNION {[1..n -> LookupNames] : n \in 0..MaxNames}

InitLookup ==
    /\ inp \in {NamedCube(types, keys) : types \in LookupTypeLists,
                                         keys \in SUBSET ExtraKeyPool}
    /\ res = [fn |-> "none"]
    /\ seq = <<>>
    /\ call = [pc |-> "off"]

\* cube._world_types_to_pixel_axes(*axes_names, include_extra_coords=...)
Lookup(axes_names, include_extra_coords) ==
    /\ res.fn = "none"
    /\ res' = [fn |-> "lookup", axes_names |-> axes_names,
               include_extra_coords |-> include_extra_coords,
               out |-> Raster_world_types_to_pixel_axes(inp, axes_names,
                                                        include_extra_coords)]
    /\ UNCHANGED <<inp, seq, call>>

NextLookup ==
    \E axes_names \in NameLists, include_extra_coords \in BOOLEAN :
        Lookup(axes_names, include_extra_coords)

SpecLookup == InitLookup /\ [][NextLookup]_vars

(***************************************************************************)
(* irispy.iris_tools.convert_between_DN_and_photons, as its test and the   *)
(* description of the conversion give it: the data number (DN) of a        *)
(* detector is a number of photons, 4 for FUV, 18 for NUV and SJI.         *)
(***************************************************************************)
PHOTON == [base |-> "photon", s |-> 0]
DN_UNIT == [detector \in {"FUV", "NUV", "SJI"} |->
               [base |-> IF detector = "FUV" THEN "DN_IRIS_FUV"
                         ELSE IF detector = "NUV" THEN "DN_IRIS_NUV"
                         ELSE "DN_IRIS_SJI",
                s |-> 0]]
DNUnits == {DN_UNIT[detector] : detector \in DOMAIN DN_UNIT}

\* Photons per DN: 4.0, 18.0, 18.0.
PhotonsPerDN(unit) == IF unit = DN_UNIT["FUV"] THEN <<1, 2>> ELSE <<9, 1>>

\* A mutant that multiplies in both directions.
convert_always_multiplying(old_data_arrays, old_unit, new_unit) ==
    IF old_unit = new_unit THEN Return(old_data_arrays, new_unit)
    ELSE Return([i \in 1..Len(old_data_arrays) |->
                    ArrayMul(old_data_arrays[i],
                             Scalar(PhotonsPerDN(IF new_unit = PHOTON THEN old_unit
                                                 ELSE new_unit)))],
                new_unit)

convert_between_DN_and_photons(old_data_arrays, old_unit, new_unit) ==
    IF old_unit = new_unit THEN Return(old_data_arrays, new_unit)
    ELSE IF new_unit = PHOTON
    THEN Return([i \in 1..Len(old_data_arrays) |->
                    ArrayMul(old_data_arrays[i], Scalar(PhotonsPerDN(old_unit)))],
                new_unit)
    ELSE Return([i \in 1..Len(old_data_arrays) |->
                    ArrayDiv(old_data_arrays[i], Scalar(PhotonsPerDN(new_unit)))],
                new_unit)

CountVals == DataVals \cup {<<15, 0>>}
CountArraySets ==
    UNION {[1..k -> ArraysOf(<<n>>, CountVals)] : k \in 0..MaxArrays, n \in 1..MaxLen}

\* The units a unit converts to: photon for a DN, each DN for photon.
Targets(unit) == IF unit = PHOTON THEN DNUnits ELSE {PHOTON}

InitDN ==
    /\ inp \in [arrays : CountArraySets, unit : DNUnits \cup {PHOTON}]
    /\ res = [fn |-> "none"]
    /\ seq = <<>>
    /\ call = [pc |-> "off"]

Convert(new_unit) ==
    /\ res.fn = "none"
    /\ new_unit \in Targets(inp.unit)
    /\ res' = [fn |-> "convert", new_unit |-> new_unit,
               out |-> convert_between_DN_and_photons(inp.arrays, inp.unit, new_unit)]
    /\ UNCHANGED <<inp, seq, call>>

\* convert(convert(A, U, V), V, U)
ConvertThereAndBack(new_unit) ==
    LET mid == convert_between_DN_and_photons(inp.arrays, inp.unit, new_unit)
    IN  /\ res.fn = "none"
        /\ new_unit \in Targets(inp.unit)
        /\ res' = [fn |-> "there and back", new_unit |-> new_unit, mid |-> mid,
                   out |-> convert_between_DN_and_photons(mid.arrays, mid.unit, inp.unit)]
        /\ UNCHANGED <<inp, seq, call>>

NextDN ==
    \/ \E new_unit \in DNUnits \cup {PHOTON} : Convert(new_unit)
    \/ \E new_unit \in DNUnits \cup {PHOTON} : ConvertThereAndBack(new_unit)

SpecDN == InitDN /\ [][NextDN]_vars

(***************************************************************************)
(* Claims about the correction functions (checked under SpecEngine).       *)
(***************************************************************************)
\* Element k of a one-dimensional or scalar operand of a broadcast
\* operation on one-dimensional arrays.
Pick(x, k) == IF Len(x.vals) = 1 THEN x.vals[1] ELSE x.vals[k]
ResultLen(a, t) == Max(Len(a.vals), Len(t.vals))
InputsBroadcast ==
    \A i \in 1..Len(inp.arrays) :
        LET n == Len(inp.arrays[i].vals)
            m == Len(inp.exposure_time.vals)
        IN  n = m \/ n = 1 \/ m = 1
NoResult(out) == "arrays" \notin DOMAIN out /\ "unit" \notin DOMAIN out

C2_ApplyDivides ==
    (res.fn = "calculate" /\ (inp.unit.s = 0 \/ res.force = TRUE) /\ InputsBroadcast)
        => /\ res.out.exc = "none"
           /\ Len(res.out.arrays) = Len(inp.arrays)
           /\ \A i \in 1..Len(inp.arrays) :
                 LET n == ResultLen(inp.arrays[i], inp.exposure_time)
                 IN  /\ res.out.arrays[i].shape = <<n>>
                     /\ \A k \in 1..n :
                           res.out.arrays[i].vals[k] =
                               FDiv(Pick(inp.arrays[i], k), Pick(inp.exposure_time, k))
           /\ res.out.unit = [base |-> inp.unit.base, s |-> inp.unit.s - 1]

C2_Witness ==
    /\ res.fn = "calculate" /\ res.force = TRUE
    /\ inp.unit = [base |-> "photon", s |-> -1]
    /\ inp.arrays = <<[shape |-> <<2>>, vals |-> <<(<<13, 0>>), (<<-3, -1>>)>>]>>
    /\ inp.exposure_time = [shape |-> <<2>>, vals |-> <<(<<1, 1>>), (<<3, 0>>)>>]
    /\ res.out.exc = "none"
    /\ res.out.unit = [base |-> "photon", s |-> -2]
    /\ res.out.arrays[1].vals = <<(<<13, -1>>), (<<-1, -1>>)>>

\* C3: undo with force=False on a unit that does not include inverse time
\* (power of seconds zero or positive, e.g. photon or a DN unit) raises the
\* ValueError "correction already undone" and returns no arrays and no unit.
C3_UndoGuardRaises ==
    (res.fn = "uncalculate" /\ res.force = FALSE /\ inp.unit.s >= 0)
        => /\ res.out.exc = "ValueError"
           /\ res.out.msg = UNDO_EXPOSURE_TIME_ERROR
           /\ NoResult(res.out)

C3_Witness ==
    /\ res.fn = "uncalculate" /\ res.force = FALSE
    /\ inp.unit = [base |-> "DN_IRIS_NUV", s |-> 0]
    /\ Len(inp.arrays) = 1
    /\ res.out.exc = "ValueError"

\* C4: when undo is not blocked by the guard (the unit is X/s with X free
\* of seconds, or force=True), and the exposure time broadcasts against
\* the arrays, every array is multiplied element-wise by the exposure time
\* and the unit is the old unit multiplied by seconds (photon/s gives
\* photon; photon forced gives photon*s).
C4_UndoMultiplies ==
    (res.fn = "uncalculate" /\ (inp.unit.s = -1 \/ res.force = TRUE) /\ InputsBroadcast)
        => /\ res.out.exc = "none"
           /\ Len(res.out.arrays) = Len(inp.arrays)
           /\ \A i \in 1..Len(inp.arrays) :
                 LET n == ResultLen(inp.arrays[i], inp.exposure_time)
                 IN  /\ res.out.arrays[i].shape = <<n>>
                     /\ \A k \in 1..n :
                           res.out.arrays[i].vals[k] =
                               FMul(Pick(inp.arrays[i], k), Pick(inp.exposure_time, k))
           /\ res.out.unit = [base |-> inp.unit.base, s |-> inp.unit.s + 1]

C4_Witness ==
    /\ res.fn = "uncalculate" /\ res.force = FALSE
    /\ inp.unit = [base |-> "photon", s |-> -1]
    /\ inp.arrays = <<[shape |-> <<2>>, vals |-> <<(<<13, 0>>), (<<-3, -1>>)>>]>>
    /\ inp.exposure_time = [shape |-> <<2>>, vals |-> <<(<<1, 1>>), (<<3, 0>>)>>]
    /\ res.out.exc = "none"
    /\ res.out.unit = [base |-> "photon", s |-> 0]
    /\ res.out.arrays[1].vals = <<(<<13, 1>>), (<<-9, -1>>)>>

\* The exposure time is a scalar or has the shape of every array, so that
\* a corrected array has the shape of the array it comes from.
ExposureFits ==
    \A i \in 1..Len(inp.arrays) :
        Len(inp.exposure_time.vals) \in {1, Len(inp.arrays[i].vals)}

\* |y - a| <= 3 * 2^(-MantBits) * |a|: y is a up to the rounding of one
\* division and one multiplication.
Close(y, a) ==
    LET e0 == Min(y[2], a[2])
        Y == y[1] * 2^(y[2] - e0)
        A == a[1] * 2^(a[2] - e0)
    IN  Abs(Y - A) * 2^MantBits <= 3 * Abs(A)

\* A positive power of two.
PowerOfTwo(t) == t[1] = 1

\* C5: for every unit U lacking inverse time (power of seconds zero or
\* positive), every array set A and every positive exposure time T, a
\* non-forced apply followed by a non-forced undo both succeed and return
\* exactly (A, U).
C5_NonForcedRoundTripExact ==
    (res.fn = "roundtrip" /\ res.force = FALSE /\ inp.unit.s >= 0 /\ ExposureFits)
        => /\ res.mid.exc = "none"
           /\ res.out.exc = "none"
           /\ res.out.arrays = inp.arrays
           /\ res.out.unit = inp.unit

\* C6: for every array set A, unit U lacking inverse time and positive
\* exposure time T, undo(apply(A, U, T, force=True), U/s, T, force=True)
\* returns arrays equal to A element-wise and the unit U.
C6_ForcedRoundTripEqual ==
    (res.fn = "roundtrip" /\ res.force = TRUE /\ inp.unit.s >= 0 /\ ExposureFits)
        => /\ res.out.exc = "none"
           /\ res.out.arrays = inp.arrays
           /\ res.out.unit = inp.unit

\* C6 as amended: the forced round trip returns the unit U and arrays of
\* the shapes of A whose elements equal those of A up to the rounding of
\* the division and the multiplication (relative error at most
\* 3 * 2^(-MantBits)), and exactly where the exposure time is a power of
\* two.
C6_ForcedRoundTripClose ==
    (res.fn = "roundtrip" /\ res.force = TRUE /\ inp.unit.s >= 0 /\ ExposureFits)
        => /\ res.out.exc = "none"
           /\ res.out.unit = inp.unit
           /\ Len(res.out.arrays) = Len(inp.arrays)
           /\ \A i \in 1..Len(inp.arrays) :
                 /\ res.out.arrays[i].shape = inp.arrays[i].shape
                 /\ \A k \in 1..Len(inp.arrays[i].vals) :
                       /\ Close(res.out.arrays[i].vals[k], inp.arrays[i].vals[k])
                       /\ PowerOfTwo(Pick(inp.exposure_time, k))
                             => res.out.arrays[i].vals[k] = inp.arrays[i].vals[k]

C6_Witness ==
    /\ res.fn = "roundtrip" /\ res.force = TRUE
    /\ inp.unit = [base |-> "photon", s |-> 0]
    /\ inp.arrays = <<[shape |-> <<2>>, vals |-> <<(<<13, 0>>), (<<-3, -1>>)>>]>>
    /\ inp.exposure_time = [shape |-> <<2>>, vals |-> <<(<<3, 0>>), (<<1, 1>>)>>]
    /\ res.mid.unit = [base |-> "photon", s |-> -1]
    /\ res.out.unit = [base |-> "photon", s |-> 0]
    /\ res.out.arrays[1].vals = <<(<<7, 1>>), (<<-3, -1>>)>>

(***************************************************************************)
(* Claims about the methods of the cubes and the sequences.                *)
(***************************************************************************)
SequenceDone == call.pc = "done" /\ call.method = "sequence"
CubeDone == call.pc = "done" /\ call.method = "cube"

\* The guard of the correction function refuses the cube's unit.
GuardRejects(cube, undo, force) ==
    force # TRUE /\ (IF undo THEN cube.unit.s + 1 # 0 ELSE cube.unit.s # 0)

\* The cube alone can be corrected.
Converts(cube, undo, force) ==
    Raster_apply_exposure_time_correction(cube, undo, force, 0).exc = "none"

\* The exposure time that element k of the cube's arrays is divided or
\* multiplied by: the one of the cube, or the one at the element's index
\* along the first axis.
ExposureFactor(cube, k) ==
    LET t == cube.extra_coords["exposure time"].value
    IN  IF IsScalar(t) THEN t.vals[1]
        ELSE t.vals[((k - 1) \div Prod(Tail(cube.data.shape))) + 1]

\* new is old with the correction applied (undone).
IsCorrected(new, old, undo) ==
    LET op == IF undo THEN "multiply" ELSE "true_divide"
    IN  /\ new.unit = [base |-> old.unit.base,
                       s |-> IF undo THEN old.unit.s + 1 ELSE old.unit.s - 1]
        /\ new.data.shape = old.data.shape
        /\ new.uncertainty.array.shape = old.uncertainty.array.shape
        /\ \A k \in 1..Prod(old.data.shape) :
              /\ new.data.vals[k] = Ufunc(op, old.data.vals[k], ExposureFactor(old, k))
              /\ new.uncertainty.array.vals[k] =
                     Ufunc(op, old.uncertainty.array.vals[k], ExposureFactor(old, k))
        /\ new.wcs = old.wcs
        /\ new.extra_coords = old.extra_coords
        /\ new.mask = old.mask
        /\ new.meta = old.meta
        /\ new.missing_axes = old.missing_axes

Ids(s) == {s.id} \cup {s.data[i].id : i \in 1..Len(s.data)}

\* C7: a correction yields no partial result.  When the guard refuses the
\* unit of any member cube of a sequence, the sequence-level call raises,
\* returns nothing, and the sequence, its cube list included, is exactly
\* what it was before the call, at every step of the call; when the guard
\* refuses the unit of a cube, the cube-level call raises and returns no
\* cube.
C7_NoPartialResult ==
    /\ (call.pc = "loop" /\ \E i \in 1..Len(call.before.data) :
            GuardRejects(call.before.data[i], call.undo, call.force))
           => seq = call.before
    /\ (SequenceDone /\ \E i \in 1..Len(call.before.data) :
            GuardRejects(call.before.data[i], call.undo, call.force))
           => /\ call.exc # "none"
              /\ seq = call.before
    /\ (CubeDone /\ GuardRejects(call.before.data[call.k], call.undo, call.force))
           => /\ call.exc # "none"
              /\ seq = call.before

\* A copy=False call of a sequence of two cubes: the first was corrected,
\* the guard refused the second.
C7_Witness ==
    /\ SequenceDone
    /\ call.copy = FALSE /\ call.undo = FALSE /\ call.force = FALSE
    /\ Len(call.before.data) = 2
    /\ Converts(call.before.data[1], FALSE, FALSE)
    /\ GuardRejects(call.before.data[2], FALSE, FALSE)
    /\ call.exc = "ValueError" /\ call.value = APPLY_EXPOSURE_TIME_ERROR

\* C8: a sequence-level call with copy=True, on a SpectrogramSequence or
\* either RasterSequence whose cubes can each be corrected, returns a new
\* sequence of the same class, with the same common axis and metadata,
\* holding the corrected cubes in the original order, and leaves the
\* original sequence as it was.
C8_CopyReturnsNewSequence ==
    (/\ SequenceDone
     /\ call.copy = TRUE
     /\ \A i \in 1..Len(call.before.data) :
            Converts(call.before.data[i], call.undo, call.force))
        => /\ call.exc = "none"
           /\ call.value.id \notin Ids(call.before)
           /\ call.value.cls = call.before.cls
           /\ call.value._common_axis = call.before._common_axis
           /\ call.value.meta = call.before.meta
           /\ Len(call.value.data) = Len(call.before.data)
           /\ \A i \in 1..Len(call.before.data) :
                  IsCorrected(call.value.data[i], call.before.data[i], call.undo)
           /\ seq = call.before

\* C9: a sequence-level call with copy=False whose cubes can each be
\* corrected returns None and leaves the sequence the same object, of the
\* same class, common axis and metadata, with a cube list of the same
\* length whose member i is the corrected member i; and while the call
\* runs the cube list is the one before the call.
C9_InPlaceReplacesList ==
    /\ (call.pc = "loop" /\ call.copy = FALSE) => seq = call.before
    /\ (SequenceDone /\ call.copy = FALSE /\ call.exc = "none")
           => /\ call.value = None
              /\ [seq EXCEPT !.data = call.before.data] = call.before
              /\ Len(seq.data) = Len(call.before.data)
              /\ \A i \in 1..Len(call.before.data) :
                     /\ IsCorrected(seq.data[i], call.before.data[i], call.undo)
                     /\ seq.data[i].id \notin Ids(call.before)
    /\ (SequenceDone /\ call.copy = FALSE
            /\ \A i \in 1..Len(call.before.data) :
                   Converts(call.before.data[i], call.undo, call.force))
           => call.exc = "none"

\* A copy=False call that corrected a sequence of two cubes.
C9_Witness ==
    /\ SequenceDone
    /\ call.copy = FALSE /\ call.exc = "none"
    /\ Len(call.before.data) = 2
    /\ seq.data # call.before.data

\* C10: a cube-level call that returns, returns a new cube whose data and
\* uncertainty are the original's divided (multiplied, to undo) element by
\* element by the same exposure time, whose unit is the original's divided
\* (multiplied) by seconds, and whose coordinate system, extra
\* coordinates, mask, metadata and missing axes are the original's; the
\* original cube is as it was.
C10_CubeReturnsNewCube ==
    (CubeDone /\ call.exc = "none")
        => /\ IsCorrected(call.value, call.before.data[call.k], call.undo)
           /\ call.value.id \notin Ids(call.before)
           /\ seq = call.before

\* A cube of two axes with an exposure time for each index of the first,
\* corrected.
C10_Witness ==
    /\ CubeDone /\ call.exc = "none" /\ call.undo = FALSE
    /\ Len(call.before.data[call.k].data.shape) = 2
    /\ ~IsScalar(call.before.data[call.k].extra_coords["exposure time"].value)
    /\ call.value.data # call.before.data[call.k].data
    /\ call.value.uncertainty.array # call.before.data[call.k].uncertainty.array

(***************************************************************************)
(* Claims about the names of a cube's axes.                                *)
(***************************************************************************)
RoleSynonyms(role) ==
    IF role = "spectral" THEN SUPPORTED_SPECTRAL_NAMES
    ELSE IF role = "time" THEN SUPPORTED_TIME_NAMES
    ELSE IF role = "exposure_time" THEN SUPPORTED_EXPOSURE_NAMES
    ELSE IF role = "lon" THEN SUPPORTED_LONGITUDE_NAMES
    ELSE SUPPORTED_LATITUDE_NAMES

IsCube(c) == "wcs" \in DOMAIN c
Keys(c) == IF c.extra_coords = None THEN {} ELSE DOMAIN c.extra_coords

\* The world types of the cube that contain the synonym.
TypesWith(c, synonym) == {j \in 1..Len(c.wcs.types) : Contains(synonym, c.wcs.types[j])}

\* C11: reading the accessor of a role whose binding is absent raises a
\* ValueError whose message is the role's name, the axis-not-found text
\* and the full list of the role's synonyms, for each of the five roles.
C11_AbsentRoleRaisesAxisNotFound ==
    (res.fn = "read" /\ RoleBinding(inp, res.role) = None)
        => /\ res.out.exc = "ValueError"
           /\ res.out.msg = <<RoleLabel(res.role), AXIS_NOT_FOUND_ERROR,
                              RoleSynonyms(res.role)>>

\* C18: the binding of every role is that of the first synonym, in the
\* declared order, that is contained in exactly one world type or is an
\* extra-coordinate key: the world type with source "wcs" in the first
\* case, also when the synonym is a key as well, and the synonym with
\* source "extra_coords" otherwise; with no such synonym it is absent.
C18_FirstSynonymPrimaryFirst ==
    IsCube(inp) =>
        \A role \in Roles :
            LET names == RoleSynonyms(role)
                Hits == {i \in 1..Len(names) :
                            \/ Cardinality(TypesWith(inp, names[i])) = 1
                            \/ names[i] \in Keys(inp)}
                first == CHOOSE i \in Hits : \A h \in Hits : i <= h
            IN  IF Hits = {} THEN RoleBinding(inp, role) = None
                ELSE IF Cardinality(TypesWith(inp, names[first])) = 1
                THEN \E j \in TypesWith(inp, names[first]) :
                        RoleBinding(inp, role) = <<inp.wcs.types[j], "wcs">>
                ELSE RoleBinding(inp, role) = <<names[first], "extra_coords">>

\* A cube with the world type "time" and an extra coordinate "time": the
\* time is bound to the world type.
C18_Witness ==
    /\ IsCube(inp)
    /\ Cardinality(TypesWith(inp, "time")) = 1
    /\ "time" \in Keys(inp)
    /\ inp._time_name = <<"time", "wcs">>
    /\ inp._exposure_time_name = <<"exposure time", "extra_coords">>
    /\ inp._longitude_name = None

\* C19: when a synonym of a role is contained in more than one world type,
\* and no earlier synonym binds, the role is bound to the first of these
\* world types (or the construction raises): never to an extra coordinate,
\* never through a later synonym, never absent.
C19_SeveralPrimaryMatchesNotSkipped ==
    IsCube(inp) =>
        \A role \in Roles :
            LET names == RoleSynonyms(role)
                Many == {i \in 1..Len(names) : Cardinality(TypesWith(inp, names[i])) > 1}
                Hits == {i \in 1..Len(names) :
                            \/ Cardinality(TypesWith(inp, names[i])) = 1
                            \/ names[i] \in Keys(inp)}
            IN  \A i \in Many :
                    (\A h \in Hits : i <= h)
                        => LET j == CHOOSE j \in TypesWith(inp, names[i]) :
                                        \A k \in TypesWith(inp, names[i]) : j <= k
                           IN  RoleBinding(inp, role) = <<inp.wcs.types[j], "wcs">>

(***************************************************************************)
(* Claims about the alignment of the exposure times with the data.         *)
(***************************************************************************)
Applied == res.fn = "apply" /\ IsCube(inp)
ExposureOf(c) == c.extra_coords["exposure time"].value
HasExposure(c) == c._exposure_time_name = <<"exposure time", "extra_coords">>

\* C14: for a cube with data of shape (N, M) and N exposure times, the
\* data of the corrected cube at [i, j] is the data at [i, j] divided by
\* exposure time i.
C14_ExposureAlignedWithFirstAxis ==
    (/\ Applied /\ res.undo = FALSE /\ res.out.exc = "none"
     /\ Len(inp.data.shape) = 2
     /\ ExposureOf(inp).shape = <<inp.data.shape[1]>>)
        => LET N == inp.data.shape[1]
               M == inp.data.shape[2]
           IN  /\ res.out.value.data.shape = <<N, M>>
               /\ \A i \in 1..N, j \in 1..M :
                      res.out.value.data.vals[(i - 1) * M + j] =
                          FDiv(inp.data.vals[(i - 1) * M + j], ExposureOf(inp).vals[i])

\* A cube of two axes corrected with exposure times that differ.
C14_Witness ==
    /\ Applied /\ res.undo = FALSE /\ res.force = FALSE /\ res.out.exc = "none"
    /\ Len(inp.data.shape) = 2
    /\ ExposureOf(inp).shape = <<inp.data.shape[1]>>
    /\ ExposureOf(inp).vals[1] # ExposureOf(inp).vals[2]
    /\ res.out.value.data # inp.data

\* C20: with an exposure time for each index of the first axis, the data
\* of a cube of rank 1, 2 or 3 is divided (multiplied) along the first
\* axis; a cube of rank 4 or more with an uncertainty, a unit the guard
\* accepts and an exposure time, an array or a scalar, is refused with the ValueError of the rank and no cube is
\* returned.
C20_RankFourRefused ==
    (/\ Applied /\ HasExposure(inp) /\ inp.uncertainty # None
     /\ ~GuardRejects(inp, res.undo, res.force))
        => /\ Len(inp.data.shape) >= 4
               => /\ res.out.exc = "ValueError"
                  /\ res.out.msg = "Raster dimensions must be 2 or 3. Dimensions=1"
           /\ (/\ Len(inp.data.shape) <= 3 /\ res.out.exc = "none"
               /\ ExposureOf(inp).shape = <<inp.data.shape[1]>>)
                  => \A k \in 1..Prod(inp.data.shape) :
                         res.out.value.data.vals[k] =
                             Ufunc(IF res.undo THEN "multiply" ELSE "true_divide",
                                   inp.data.vals[k],
                                   ExposureOf(inp).vals[
                                       ((k - 1) \div Prod(Tail(inp.data.shape))) + 1])

(***************************************************************************)
(* Claims about the units the guards let through.                          *)
(***************************************************************************)
\* C16: undo with force=False on a unit that includes inverse time (a
\* negative power of seconds: 1/s, 1/s^2, ...), with an exposure time that
\* broadcasts against the arrays, is not refused: every array is
\* multiplied by the exposure time and the unit by seconds.
C16_UndoProceedsOnInverseTime ==
    (res.fn = "uncalculate" /\ res.force = FALSE /\ inp.unit.s < 0 /\ InputsBroadcast)
        => /\ res.out.exc = "none"
           /\ Len(res.out.arrays) = Len(inp.arrays)
           /\ \A i \in 1..Len(inp.arrays) :
                 \A k \in 1..ResultLen(inp.arrays[i], inp.exposure_time) :
                     res.out.arrays[i].vals[k] =
                         FMul(Pick(inp.arrays[i], k), Pick(inp.exposure_time, k))
           /\ res.out.unit = [base |-> inp.unit.base, s |-> inp.unit.s + 1]

\* C17: apply with force=False on a unit that does not include inverse
\* time (power of seconds zero or positive), with an exposure time that
\* broadcasts against the arrays, is not refused: every array is divided
\* by the exposure time and the unit by seconds.
C17_ApplyProceedsWithoutInverseTime ==
    (res.fn = "calculate" /\ res.force = FALSE /\ inp.unit.s >= 0 /\ InputsBroadcast)
        => /\ res.out.exc = "none"
           /\ Len(res.out.arrays) = Len(inp.arrays)
           /\ \A i \in 1..Len(inp.arrays) :
                 \A k \in 1..ResultLen(inp.arrays[i], inp.exposure_time) :
                     res.out.arrays[i].vals[k] =
                         FDiv(Pick(inp.arrays[i], k), Pick(inp.exposure_time, k))
           /\ res.out.unit = [base |-> inp.unit.base, s |-> inp.unit.s - 1]

(***************************************************************************)
(* Claims about the conversion between DN and photons.                     *)
(***************************************************************************)
\* Every element of every array is the element of the input multiplied
\* (divided) by the factor.
Scaled(op, out, arrays, factor) ==
    /\ Len(out) = Len(arrays)
    /\ \A i \in 1..Len(arrays) :
          /\ out[i].shape = arrays[i].shape
          /\ \A k \in 1..Len(arrays[i].vals) :
                out[i].vals[k] = Ufunc(op, arrays[i].vals[k], factor)

ConvertsAsStated ==
    res.fn = "convert"
        => /\ res.out.exc = "none"
           /\ res.out.unit = res.new_unit
           /\ inp.unit = DN_UNIT["FUV"]
                  => Scaled("multiply", res.out.arrays, inp.arrays, <<1, 2>>)
           /\ inp.unit \in {DN_UNIT["NUV"], DN_UNIT["SJI"]}
                  => Scaled("multiply", res.out.arrays, inp.arrays, <<9, 1>>)
           /\ res.new_unit = DN_UNIT["FUV"]
                  => Scaled("true_divide", res.out.arrays, inp.arrays, <<1, 2>>)
           /\ res.new_unit \in {DN_UNIT["NUV"], DN_UNIT["SJI"]}
                  => Scaled("true_divide", res.out.arrays, inp.arrays, <<9, 1>>)

\* C15: the conversion of DN to photons multiplies every array by the
\* photons per DN of the detector (FUV 4, NUV 18, SJI 18), that of photons
\* to DN divides by it, and the unit returned is the one asked for; DN
\* converted to photons and back are the original arrays and unit.
C15_ConversionRecoversExactly ==
    /\ ConvertsAsStated
    /\ (res.fn = "there and back" /\ inp.unit \in DNUnits)
           => /\ res.out.unit = inp.unit
              /\ res.out.arrays = inp.arrays

\* C15 as amended: DN converted to photons and back are the original unit
\* and arrays equal to the original up to the rounding of the
\* multiplication and the division (relative error at most
\* 3 * 2^(-MantBits)), and exactly for FUV, whose factor is a power of two.
C15_ConversionRecoversClosely ==
    /\ ConvertsAsStated
    /\ (res.fn = "there and back" /\ inp.unit \in DNUnits)
           => /\ res.out.unit = inp.unit
              /\ Len(res.out.arrays) = Len(inp.arrays)
              /\ \A i \in 1..Len(inp.arrays) :
                    /\ res.out.arrays[i].shape = inp.arrays[i].shape
                    /\ \A k \in 1..Len(inp.arrays[i].vals) :
                          /\ Close(res.out.arrays[i].vals[k], inp.arrays[i].vals[k])
                          /\ inp.unit = DN_UNIT["FUV"]
                                => res.out.arrays[i].vals[k] = inp.arrays[i].vals[k]

\* 13 DN of NUV are 234 photons, 240 once rounded, and 240 photons are
\* 13.3 DN, 13 once rounded; -1.5 DN come back as -1.5 as well.
C15_Witness ==
    /\ res.fn = "there and back"
    /\ inp.unit = DN_UNIT["NUV"]
    /\ inp.arrays = <<[shape |-> <<2>>, vals |-> <<(<<13, 0>>), (<<-3, -1>>)>>]>>
    /\ res.mid.unit = PHOTON
    /\ res.mid.arrays[1].vals = <<(<<15, 4>>), (<<-7, 2>>)>>
    /\ res.out.unit = DN_UNIT["NUV"]
    /\ res.out.arrays = inp.arrays

(***************************************************************************)
(* The claims about indexing a sequence.                                   *)
(***************************************************************************)
BuildFailed == call.pc = "done" /\ call.method = "init"

Indexed(method) == call.pc = "done" /\ call.method = method

\* The index puts an integer on the slit-step position of the cubes.
ScalarOnSlitStep ==
    /\ call.item.tuple
    /\ Len(call.item.entries) >= call.before._common_axis[1] + 2
    /\ IsInt(call.item.entries[call.before._common_axis[1] + 2])

\* The shape of a cube without the axes the index puts an integer on, the
\* axes it puts a slice on as long as the slice.
RECURSIVE ShapeWithout(_, _, _)
ShapeWithout(shape, cube_item, a) ==
    IF a > Len(shape) THEN <<>>
    ELSE (IF a > Len(cube_item) THEN <<shape[a]>>
          ELSE IF IsInt(cube_item[a]) THEN <<>>
          ELSE <<cube_item[a][3] - cube_item[a][2]>>)
         \o ShapeWithout(shape, cube_item, a + 1)

Demoted ==
    /\ call.exc = "none"
    /\ call.value.kind = "sequence"
    /\ call.value.obj.cls = SPECTROGRAM_SEQUENCE
    /\ call.value.obj._common_axis = None
    /\ \A i \in 1..Len(call.value.obj.data) :
          call.value.obj.data[i].data.shape
              = ShapeWithout(call.before.data[1].data.shape, Tail(call.item.entries), 1)

\* C12: a RasterSequence over cubes of three axes with common_axis 0 can be
\* built, and slicing the as-raster view of a RasterSequence with a tuple
\* that puts an integer on the slit-step position gives a
\* SpectrogramSequence with common_axis None whose cubes have lost that axis.
C12_ScalarOnSlitStepDemotes ==
    /\ (BuildFailed /\ call.cls = RASTER_SEQUENCE
           /\ Len(call.data_list[1].data.shape) = 3)
       => call.kwargs.common_axis # <<0>>
    /\ (Indexed("slice_as_raster") /\ call.before.cls = RASTER_SEQUENCE /\ ScalarOnSlitStep)
       => Demoted

\* C13: seq[item] on a RasterSequence raises the error that names
\* slice_as_raster and slice_as_SnS, whatever the index, and leaves the
\* sequence as it was; either view read after it is a slicer of that
\* sequence.
C13_DirectIndexingRefused ==
    /\ (Indexed("getitem") /\ call.before.cls = RASTER_SEQUENCE)
       => /\ call.exc = "NotImplementedError"
          /\ call.value = "Use RasterSequence.slice_as_raster or RasterSequence.slice_as_SnS."
          /\ seq = call.before
    /\ (Indexed("view") /\ call.before.cls = RASTER_SEQUENCE)
       => /\ call.exc = "none"
          /\ call.value.seq = call.before
          /\ call.value.slicer = (IF call.view = "slice_as_raster" THEN "_SequenceSlicer"
                                  ELSE "_SnSSlicer")
          /\ seq = call.before

\* A view read after seq[item] was refused on a RasterSequence of two cubes.
C13_Witness ==
    /\ Indexed("view")
    /\ call.before.cls = RASTER_SEQUENCE
    /\ call.after = "NotImplementedError"
    /\ call.exc = "none"
    /\ Len(call.before.data) >= 2

\* The labels without those of the axes the index puts an integer on.
RECURSIVE LabelsWithout(_, _, _)
LabelsWithout(types, cube_item, a) ==
    IF a > Len(types) THEN <<>>
    ELSE (IF a <= Len(cube_item) /\ IsInt(cube_item[a]) THEN <<>> ELSE <<types[a]>>)
         \o LabelsWithout(types, cube_item, a + 1)

\* C21: slicing the as-raster view of a RasterSequence with a tuple whose
\* first entry is a slice and that puts no integer on the slit-step
\* position, tuples that stop at or before that position included,
\* succeeds and gives a RasterSequence whose labels are the original ones
\* without those of the positions an integer addresses.
C21_OtherTuplesResliceLabels ==
    (/\ Indexed("slice_as_raster")
     /\ call.before.cls = RASTER_SEQUENCE
     /\ call.item.tuple
     /\ ~IsInt(call.item.entries[1])
     /\ ~ScalarOnSlitStep)
    => /\ call.exc = "none"
       /\ call.value.kind = "sequence"
       /\ call.value.obj.cls = RASTER_SEQUENCE
       /\ call.value.obj._single_scan_instrument_axes_types
              = LabelsWithout(call.before._single_scan_instrument_axes_types,
                              Tail(call.item.entries), 1)

\* The index is a tuple whose first entry is no integer.
LeadingEntryNotScalar == call.item.tuple /\ ~IsInt(call.item.entries[1])

\* C22: slicing the sit-and-stare view of a RasterSequence sets the labels
\* of the result to the original ones without those of the cube axes the
\* index puts an integer on exactly when the index is a tuple whose first
\* entry is no integer, whatever common_axis is; otherwise the result has
\* the labels it was made with: those of the sequence it copies, or none
\* when it is a cube.
C22_SnSLabelsRecomputedForTuples ==
    (Indexed("slice_as_SnS") /\ call.before.cls = RASTER_SEQUENCE)
    => /\ call.exc = "none"
       /\ LeadingEntryNotScalar
          => /\ "_single_scan_instrument_axes_types" \in DOMAIN call.value.obj
             /\ call.value.obj._single_scan_instrument_axes_types
                    = LabelsWithout(call.before._single_scan_instrument_axes_types,
                                    call.item.entries, 1)
       /\ (~LeadingEntryNotScalar /\ call.value.kind = "sequence")
          => call.value.obj._single_scan_instrument_axes_types
                 = call.before._single_scan_instrument_axes_types
       /\ (~LeadingEntryNotScalar /\ call.value.kind = "cube")
          => "_single_scan_instrument_axes_types" \notin DOMAIN call.value.obj

\* The sit-and-stare view of a RasterSequence with common_axis 1 sliced
\* with a slice and then an integer: the label of the second axis is dropped.
C22_Witness ==
    /\ Indexed("slice_as_SnS")
    /\ call.before.cls = RASTER_SEQUENCE
    /\ call.before._common_axis = <<1>>
    /\ LeadingEntryNotScalar
    /\ Len(call.item.entries) = 2
    /\ IsInt(call.item.entries[2])
    /\ call.exc = "none"
    /\ call.value.obj._single_scan_instrument_axes_types = <<SLIT_AXIS_NAME>>

(***************************************************************************)
(* The claims about the labels a RasterSequence gives its axes.            *)
(***************************************************************************)
Built == seq # None /\ seq.cls = RASTER_SEQUENCE

Labels == seq._single_scan_instrument_axes_types

\* The pixel axes of the first cube whose world type is the name the
\* spectral role is bound to.
SpectralAxes ==
    {j \in 1..Len(seq.data[1].wcs.types) :
        /\ seq.data[1]._spectral_name # None
        /\ seq.data[1].wcs.types[j] = seq.data[1]._spectral_name[1]}

\* The axes the slit-step and spectral labels leave without a label.
Unlabeled(cube, common_axis) ==
    {j \in 1..Len(cube.data.shape) :
        /\ j # common_axis[1] + 1
        /\ ~(cube._spectral_name # None /\ cube.wcs.types[j] = cube._spectral_name[1])}

\* C23: a RasterSequence that was built has a label for each axis of its
\* first cube, each one of the three, 'slit step' at common_axis,
\* 'spectral' at the axis whose world type is the spectral name, and
\* 'position along slit' on exactly one axis; with more than one axis left
\* without a label the construction fails.
C23_LabelsOfEveryAxis ==
    /\ Built
       => /\ Len(Labels) = Len(seq.data[1].data.shape)
          /\ \A j \in 1..Len(Labels) :
                Labels[j] \in {SLIT_STEP_AXIS_NAME, SPECTRAL_AXIS_NAME, SLIT_AXIS_NAME}
          /\ Labels[seq._common_axis[1] + 1] = SLIT_STEP_AXIS_NAME
          /\ \A j \in SpectralAxes : Labels[j] = SPECTRAL_AXIS_NAME
          /\ Cardinality({j \in 1..Len(Labels) : Labels[j] = SLIT_AXIS_NAME}) = 1
    /\ Built => Cardinality(Unlabeled(seq.data[1], seq._common_axis)) <= 1

\* C24: a RasterSequence whose slit-step and spectral labels leave no axis
\* without a label is not built: the construction fails with the
\* ValueError it raises when they leave more than one.
C24_NoUnlabeledAxisRefused ==
    Built => \E j \in 1..Len(Labels) : Labels[j] = SLIT_AXIS_NAME

(***************************************************************************)
(* The claims about the lookup from world types to pixel axes.             *)
(***************************************************************************)
LookedUp == res.fn = "lookup"

\* The world types and the extra coordinates that satisfy a name: those
\* that contain it.
WcsMatches(name) ==
    {j \in 1..Len(inp.wcs.types) : Contains(name, inp.wcs.types[j])}

ExtraMatches(name) ==
    IF inp.extra_coords = None THEN {}
    ELSE {key \in DOMAIN inp.extra_coords : Contains(name, key)}

\* A tuple of one axis is given as the axis.
Collapsed(axes) == IF Len(axes) = 1 THEN <<"int", axes>> ELSE <<"tuple", axes>>

\* C25: looking up one name, the extra coordinates included, fails with the
\* ValueError 'axis name provided not unique.' when one world type and an
\* extra coordinate satisfy it, or several extra coordinates do; when only
\* one world type satisfies it the axes of that world type are returned,
\* and when only one extra coordinate does, the axis of that one, a single
\* axis as a number.
C25_AmbiguousNameRefusedElseResolved ==
    (LookedUp /\ Len(res.axes_names) = 1 /\ res.include_extra_coords)
    => LET name == res.axes_names[1]
           in_wcs == Cardinality(WcsMatches(name)) = 1
           in_extra == ExtraMatches(name)
       IN  /\ ((in_wcs /\ in_extra # {}) \/ Cardinality(in_extra) > 1)
              => /\ res.out.exc = "ValueError"
                 /\ res.out.msg = "axis name provided not unique."
           /\ (in_wcs /\ in_extra = {})
              => /\ res.out.exc = "none"
                 /\ res.out.value
                        = <<Collapsed(get_dependent_data_axes(
                                          inp.wcs, (CHOOSE j \in WcsMatches(name) : TRUE) - 1,
                                          inp.missing_axes))>>
           /\ (WcsMatches(name) = {} /\ Cardinality(in_extra) = 1
                  /\ inp.extra_coords[CHOOSE key \in in_extra : TRUE].axis # None)
              => /\ res.out.exc = "none"
                 /\ res.out.value
                        = <<<<"int", inp.extra_coords[CHOOSE key \in in_extra : TRUE].axis>>>>

CubesNow == IF inp.kind = "cube" THEN <<inp.obj>> ELSE inp.obj.data
CubesAtFirst == IF inp.kind = "cube" THEN <<res.original>> ELSE res.original.data

Succeeded(c) == c # <<>> /\ c[2] = "none"

\* y times t is a up to the rounding of n divisions and multiplications.
CloseAfter(y, t, a, n) ==
    LET e0 == Min(y[2] + t[2], a[2])
        Y == y[1] * t[1] * 2^(y[2] + t[2] - e0)
        A == a[1] * 2^(a[2] - e0)
    IN  Abs(Y - A) * 2^MantBits <= 2 * n * Abs(A)

UnitInStep == \A i \in 1..Len(CubesNow) : CubesNow[i].unit.s \in {0, -1}

RejectedChangesNothing == (res.n > 0 /\ ~Succeeded(res.last)) => inp.obj = res.before

NeverTwiceTheSameWay ==
    ~(Succeeded(res.last) /\ Succeeded(res.prev) /\ res.last[1] = res.prev[1])

\* C26 as stated: after any calls that are not forced, on a cube or a
\* sequence whose unit had no seconds, the power of seconds is 0 or -1,
\* each element of the data is the original one or the original one
\* divided by its exposure time, a refused call changed nothing, and the
\* last two calls did not both succeed in the same direction.
C26_DataOriginalOrDivided ==
    res.fn = "chain"
    => /\ UnitInStep
       /\ \A i \in 1..Len(CubesNow) : \A k \in 1..Prod(CubesNow[i].data.shape) :
             \/ CubesNow[i].data.vals[k] = CubesAtFirst[i].data.vals[k]
             \/ /\ HasExposure(CubesAtFirst[i])
                /\ CubesNow[i].data.vals[k]
                       = FDiv(CubesAtFirst[i].data.vals[k], ExposureFactor(CubesAtFirst[i], k))
       /\ RejectedChangesNothing
       /\ NeverTwiceTheSameWay

\* C26: the same, the data being the original or the original divided by
\* the exposure time up to the rounding of the divisions and
\* multiplications made: exactly before any call succeeded, after the
\* first that did, and when the exposure time is a power of two.
C26_DataOriginalOrDividedClosely ==
    res.fn = "chain"
    => /\ UnitInStep
       /\ \A i \in 1..Len(CubesNow) : \A k \in 1..Prod(CubesNow[i].data.shape) :
             LET now == CubesNow[i].data.vals[k]
                 first == CubesAtFirst[i].data.vals[k]
                 t == ExposureFactor(CubesAtFirst[i], k)
             IN  IF res.done = 0 THEN now = first
                 ELSE /\ HasExposure(CubesAtFirst[i])
                      /\ IF CubesNow[i].unit.s = 0
                         THEN CloseAfter(now, <<1, 0>>, first, res.done)
                         ELSE CloseAfter(now, t, first, res.done)
                      /\ (res.done = 1 \/ PowerOfTwo(t))
                         => now = (IF CubesNow[i].unit.s = 0 THEN first ELSE FDiv(first, t))
       /\ RejectedChangesNothing
       /\ NeverTwiceTheSameWay

\* A sequence, corrected in place, uncorrected and corrected again, with
\* an element that the rounding moved: 13 / 3 * 3 is 14.
C26_Witness ==
    /\ res.fn = "chain"
    /\ inp.kind = "sequence"
    /\ res.done = 3
    /\ inp.obj.id = 0
    /\ \A i \in 1..Len(CubesNow) : CubesNow[i].unit.s = -1
    /\ res.before.data[1].data.vals[1] # res.original.data[1].data.vals[1]

====
